---- MODULE Spec2Model ----
(***************************************************************************)
(* Model of the Dice application run (src/dice-assistant.py) and of the    *)
(* step functions it drives (src/dice_assistant/dice_step_*.py).           *)
(*                                                                         *)
(* Spec         run_automation: input validation, session creation, login, *)
(*              the three navigation tiers, and the apply loop of          *)
(*              _apply_to_jobs with steps 3, 4, 8, 9, 10 and 5.            *)
(* SpecCatalog  _find_all_job_elements applied to bounded page contents.   *)
(* SpecLookup   the field and button lookups that walk a strategy list.    *)
(* SpecForm     the form filling of the job-board website automations.     *)
(* SpecBoards   the board loop of GovernmentAssistant and its stop flag.   *)
(* SpecStop     Spec with stop_automation of the job-board orchestrator.   *)
(* SpecLogin    step_2_login over its list of login URLs.                  *)
(* SpecDriver   the two _create_robust_driver helpers.                     *)
(* SpecPlatforms  _run_automation of ApplicationAssistant and its records. *)
(* SpecTracker    log_application and record_application, the two writers. *)
(* SpecRecatalog  step 4 picking a listing by index on a re-scanned page.  *)
(* SpecRestart    SpecBoards with start_automation of the orchestrator.    *)
(* SpecOrchestration  _run_industry_orchestration and its records.         *)
(* SpecClick      the click helpers of steps 4, 9 and 10.                  *)
(* SpecSearch     _manual_search over its four selectors.                  *)
(* SpecSubmit     submit_application of the website automations.           *)
(*                                                                         *)
(* The browser is the environment: what a click, a lookup or a navigation  *)
(* does is drawn with \E from the outcomes the step code distinguishes.    *)
(***************************************************************************)
EXTENDS Integers, Sequences, FiniteSets, TLC

\* ------------------------------------------------------------------ bounds
MaxJobs == 3
MaxWin == 2
MaxElems == 3
MaxStrategies == 3
MaxBoards == 3
MaxPlatforms == 2
MaxCalls == 2

\* --------------------------------------------------------------- constants
NoWin == 0
Absent == 0 - 1
NumSelectors == 9
max_retries == 3
DemoApplications == 2
TitleWidth == 255
NumClickStrategies == 4

VARIABLES
    pc,                    \* position of run_automation / _apply_to_jobs
    user_data,             \* "none" | "notitle" | "nonstring" | "ok"   (argument of run_automation)
    user_email,            \* self.user_email is set
    browser,               \* "none" | "running" | "quit" (the Chrome process)
    driver,                \* the local variable driver is bound
    tier_used,             \* "none" | "Tier 1" | "Tier 2" | "Tier 3"
    filtered_results_url,  \* checkpoint URL stored at line 235
    total_jobs,
    job_index,
    applications_completed,
    applied_jobs,          \* sequence of the 'index' fields appended at line 280
    windows,               \* driver.window_handles, in order
    cur,                   \* driver.current_window_handle
    winUrl,                \* URL shown by each window handle
    original_window,       \* driver.original_window, NoWin when the attribute is unset
    ready_for_next,        \* loop_result['ready_for_next'], read at line 302 only
    judged_applied,        \* apply_result of line 259 is the return of step 4 line 72 (judged already applied); not read after line 292
    nav_swallowed,         \* the driver.get of the handler raised and was swallowed (lines 316-319)
    page_verified,         \* step 5 found the results page and found it ready (step 5 lines 91-99)
    result,                \* the dict run_automation returned
    trace,                 \* history: the calls made so far with what they returned, in order
    page,                  \* SpecCatalog: elements of the page, in document order
    catalog,               \* SpecCatalog: list returned by _find_all_job_elements
    cataloged,             \* SpecCatalog: _find_all_job_elements has run on page
    lk_kind,               \* SpecLookup: which multi-strategy lookup runs
    lk_value,              \* SpecLookup: the value to type is non-empty
    lk_i,                  \* SpecLookup: position in the selector list (1-based)
    lk_tried,              \* SpecLookup: the strategies tried so far, with what each met
    lk_readback,           \* SpecLookup: last element.get_attribute('value') read: "none" | "empty" | "value"
    lk_ret,                \* SpecLookup: "running" | "true" | "false"
    form_board,            \* SpecForm: the board whose form is being filled
    form_pc,               \* SpecForm: "wait" | "fields" | "done" | "stopped" | "error"
    form_role,             \* SpecForm: position in the board's field list
    filled_fields,         \* SpecForm: the keys of the dict filled_fields
    unresolved,            \* SpecForm: roles whose fill call returned False
    form_ok,               \* SpecForm: what the form fill returned
    stop_requested,        \* JobBoardAssistant.stop_requested
    gb_pc,                 \* SpecBoards: "loop" | "call" | "done", position of _run_Government_automation
    gb_boards,             \* SpecBoards: the ids of the selected boards, in order
    gb_i,                  \* SpecBoards: position in gb_boards (1-based)
    gb_started,            \* SpecBoards: positions whose automation was called, in order
    completed_boards,      \* SpecBoards: GovernmentAssistant.completed_boards
    gb_results,            \* SpecBoards: what each call returned, in order
    lg_pc,                 \* SpecLogin: "creds" | "urls" | "done", position of step_2_login
    lg_url,                \* SpecLogin: position in login_urls (1-based)
    lg_attempts,           \* SpecLogin: what happened at each URL tried, in order
    lg_result,             \* SpecLogin: "none" | "success" | "no_credentials" | "all_failed"
    dc_owner,              \* SpecDriver: whose _create_robust_driver runs
    dc_attempts,           \* SpecDriver: how each attempt ended, in order
    dc_sleeps,             \* SpecDriver: positions of the attempts followed by time.sleep(2)
    dc_state,              \* SpecDriver: "running" | "returned" | "raised"
    pl_selected,           \* SpecPlatforms: selected_platforms
    pl_i,                  \* SpecPlatforms: position in pl_selected (1-based)
    pl_store_up,           \* SpecPlatforms: the store can be reached (psycopg2.connect returns)
    pl_store,              \* SpecPlatforms: the records written to application_stats, in order
    pl_results,            \* SpecPlatforms: results[platform] of _run_automation, in order
    tk_store,              \* SpecTracker: the rows of application_stats, in insertion order
    tk_last,               \* SpecTracker: the last writer call, its arguments and what it returned
    tk_calls,              \* SpecTracker: number of writer calls made
    rc_page,               \* SpecRecatalog: the job elements the results page shows now, in document order
    rc_catalog,            \* SpecRecatalog: the hrefs step 3 cataloged, in order (total_jobs is its length)
    rc_i,                  \* SpecRecatalog: job_index of the loop at line 255
    rc_selected,           \* SpecRecatalog: the href of target_element (step 4 line 66) of each call, in order
    rs_stopped,            \* history: stop_automation was called since the run of SpecBoards began
    or_pc,                 \* SpecOrchestration: "begin" | "started" | "refused" | "recorded" | "ended", position of _run_industry_orchestration
    or_records,            \* SpecOrchestration: the rows the orchestrator wrote to application_stats, in order
    ck_helper,             \* SpecClick: which click helper runs
    ck_i,                  \* SpecClick: position in the list of click strategies (1-based), 0 before it
    ck_tried,              \* SpecClick: what each strategy tried met, in order
    ck_ret,                \* SpecClick: "running", "true" or "false", what the helper returned
    ck_step,               \* SpecClick: "waiting", "goes_on" or "fails", what the calling step did with it
    ms_found,              \* SpecSearch: what each of the four search_selectors yields on the page
    ms_type_raises,        \* SpecSearch: clear() or send_keys() on the element kept raises
    ms_field,              \* SpecSearch: "unset", or the element typed into: "none", "hidden" or "shown"
    ms_ret,                \* SpecSearch: "running", "true" or "false", what _manual_search returned
    sb_board,              \* SpecSubmit: the website automation whose submit_application runs
    sb_pc,                 \* SpecSubmit: "start", "created", "filled" or "done", position of submit_application
    sb_browser,            \* SpecSubmit: "none", "running" or "quit", the Chrome process of the call
    sb_stopped,            \* SpecSubmit: stop_check_callback() answered True at a check
    sb_submit,             \* SpecSubmit: "none", or how the call of the submit helper ended: "ok", "failed", "raises", "times_out"
    sb_quit,               \* SpecSubmit: "none", or how self.driver.quit() of the finally clause ended: "ok", "raised"
    sb_result              \* SpecSubmit: "none", "raised", or the message of the pair returned ("submitted" with True, any other with False)
\* one tuple of all variables
lookupVars == <<lk_kind, lk_value, lk_i, lk_tried, lk_readback, lk_ret>>

formVars == <<form_board, form_pc, form_role, filled_fields, unresolved, form_ok>>

boardVars == <<stop_requested, gb_pc, gb_boards, gb_i, gb_started, completed_boards, gb_results>>

loginVars == <<lg_pc, lg_url, lg_attempts, lg_result>>

driverVars == <<dc_owner, dc_attempts, dc_sleeps, dc_state>>

platformVars == <<pl_selected, pl_i, pl_store_up, pl_store, pl_results>>

trackerVars == <<tk_store, tk_last, tk_calls>>

recatalogVars == <<rc_page, rc_catalog, rc_i, rc_selected>>

restartVars == <<rs_stopped>>

orchestrationVars == <<or_pc, or_records>>

clickVars == <<ck_helper, ck_i, ck_tried, ck_ret, ck_step>>

searchVars == <<ms_found, ms_type_raises, ms_field, ms_ret>>

submitVars == <<sb_board, sb_pc, sb_browser, sb_stopped, sb_submit, sb_quit, sb_result>>

\* the variables of the components other than the Dice run and its catalog
extVars == <<lookupVars, formVars, boardVars, loginVars, driverVars, platformVars, trackerVars, recatalogVars, restartVars, orchestrationVars, clickVars, searchVars, submitVars>>

vars == <<pc, user_data, user_email, browser, driver, tier_used, filtered_results_url, total_jobs, job_index, applications_completed, applied_jobs, windows, cur, winUrl, original_window, ready_for_next, judged_applied, nav_swallowed, page_verified, result, trace, page, catalog, cataloged, extVars>>

runVars == <<pc, user_data, user_email, browser, driver, tier_used, filtered_results_url, total_jobs, job_index, applications_completed, applied_jobs, windows, cur, winUrl, original_window, ready_for_next, judged_applied, nav_swallowed, page_verified, result, trace>>

loopVars == <<total_jobs, job_index, applications_completed, applied_jobs, filtered_results_url, ready_for_next, judged_applied, nav_swallowed, page_verified>>

winVars == <<windows, cur, winUrl, original_window>>

inputVars == <<user_data, user_email>>

catVars == <<page, catalog, cataloged>>

Handles == 1..MaxWin

\* URLs the run distinguishes: the post-login page, the Tier 1 / Tier 2 /
\* Tier 3 targets, the page the manual search leads to, a job detail page,
\* the application form, a confirmation page, anything else.
Tier1Url == "tier1"
Tier2Url == "tier2"
SearchedUrl == "tier2q"
JobsRootUrl == "jobs"
DetailUrl == "detail"
ApplyUrl == "apply"
ConfirmUrl == "confirm"
OtherUrl == "other"
LoginUrl == "login"
ClosedUrl == "closed"

Ev(e, i, ok) == [ev |-> e, i |-> i, ok |-> ok]

Url == IF cur = NoWin THEN ClosedUrl ELSE winUrl[cur]

\* driver.get(u) that did not raise: the current window shows u.
Navigate(w, u) == [winUrl EXCEPT ![w] = u]

ErrorResult(msg) == [kind |-> "error", success |-> FALSE, error |-> msg, tier_used |-> "none", total_applications |-> Absent, applied_jobs |-> <<>>]

\* finally: driver.quit() when the local driver is bound (lines 425-431)
QuitIfBound == browser' = IF driver /\ browser = "running" THEN "quit" ELSE browser

\* a return statement of run_automation, through the finally clause
Return(res) ==
    /\ result' = res
    /\ pc' = "done"
    /\ QuitIfBound

\* ------------------------------------------------------------------- Init
InitWindows ==
    /\ windows = <<1>>
    /\ cur = 1
    /\ winUrl = [h \in Handles |-> IF h = 1 THEN "blank" ELSE ClosedUrl]
    /\ original_window = NoWin

InitRun ==
    /\ pc = "start"
    /\ browser = "none"
    /\ driver = FALSE
    /\ tier_used = "none"
    /\ filtered_results_url = "unset"
    /\ total_jobs = 0
    /\ job_index = 0
    /\ applications_completed = 0
    /\ applied_jobs = <<>>
    /\ InitWindows
    /\ ready_for_next = FALSE
    /\ judged_applied = FALSE
    /\ nav_swallowed = FALSE
    /\ page_verified = FALSE
    /\ result = [kind |-> "none", success |-> FALSE, error |-> "", tier_used |-> "none", total_applications |-> Absent, applied_jobs |-> <<>>]
    /\ trace = <<>>

\* no writer of the store has been called yet
NoRef == [prefix |-> "", year |-> "", code |-> ""]

NoCall == [writer |-> "none", kind |-> "none", success |-> FALSE, error |-> "", reference |-> NoRef,
           platform |-> "", job_title |-> [id |-> "", len |-> 0], company |-> [id |-> "", len |-> 0], status |-> ""]

\* Each specification exercises one component c; the others stay as constructed.
IdleExcept(c) ==
    /\ IF c = "dice" THEN TRUE
       ELSE user_data = "ok" /\ user_email = TRUE /\ InitRun
    /\ IF c = "catalog" THEN TRUE
       ELSE page = <<>> /\ catalog = <<>> /\ cataloged = FALSE
    /\ IF c = "lookup" THEN TRUE
       ELSE /\ lk_kind = "none"
            /\ lk_value = FALSE
            /\ lk_i = 1
            /\ lk_tried = <<>>
            /\ lk_readback = "none"
            /\ lk_ret = "running"
    /\ IF c = "form" THEN TRUE
       ELSE /\ form_board = "none"
            /\ form_pc = "wait"
            /\ form_role = 1
            /\ filled_fields = {}
            /\ unresolved = {}
            /\ form_ok = FALSE
    /\ IF c = "boards" THEN TRUE
       ELSE /\ stop_requested = FALSE
            /\ gb_pc = "loop"
            /\ gb_boards = <<>>
            /\ gb_i = 1
            /\ gb_started = <<>>
            /\ completed_boards = {}
            /\ gb_results = <<>>
    /\ IF c = "login" THEN TRUE
       ELSE /\ lg_pc = "creds"
            /\ lg_url = 1
            /\ lg_attempts = <<>>
            /\ lg_result = "none"
    /\ IF c = "driver" THEN TRUE
       ELSE /\ dc_owner = "none"
            /\ dc_attempts = <<>>
            /\ dc_sleeps = {}
            /\ dc_state = "running"
    /\ IF c = "platforms" THEN TRUE
       ELSE /\ pl_selected = <<>>
            /\ pl_i = 1
            /\ pl_store_up = TRUE
            /\ pl_store = <<>>
            /\ pl_results = <<>>
    /\ IF c = "tracker" THEN TRUE
       ELSE /\ tk_store = <<>>
            /\ tk_last = NoCall
            /\ tk_calls = 0
    /\ IF c = "recatalog" THEN TRUE
       ELSE /\ rc_page = <<>>
            /\ rc_catalog = <<>>
            /\ rc_i = 0
            /\ rc_selected = <<>>
    /\ IF c = "restart" THEN TRUE
       ELSE /\ rs_stopped = FALSE
    /\ IF c = "orchestration" THEN TRUE
       ELSE /\ or_pc = "begin"
            /\ or_records = <<>>
    /\ IF c = "click" THEN TRUE
       ELSE /\ ck_helper = "none"
            /\ ck_i = 0
            /\ ck_tried = <<>>
            /\ ck_ret = "running"
            /\ ck_step = "waiting"
    /\ IF c = "search" THEN TRUE
       ELSE /\ ms_found = <<>>
            /\ ms_type_raises = FALSE
            /\ ms_field = "unset"
            /\ ms_ret = "running"
    /\ IF c = "submit" THEN TRUE
       ELSE /\ sb_board = "none"
            /\ sb_pc = "start"
            /\ sb_browser = "none"
            /\ sb_stopped = FALSE
            /\ sb_submit = "none"
            /\ sb_quit = "none"
            /\ sb_result = "none"

Init ==
    /\ user_data \in {"none", "notitle", "nonstring", "ok"}
    /\ user_email \in BOOLEAN
    /\ InitRun
    /\ IdleExcept("dice")

\* ------------------------------------------- run_automation, lines 333-400
\* lines 338-358: the job title is required
InputError(ud) ==
    IF ud = "none" THEN "No user data provided"
    ELSE IF ud = "notitle" THEN "No job title provided"
    ELSE ""

\* lines 338-339 and 347 stand before the try block of line 362: a
\* jobTitle or location that is no string (a JSON null or number) makes
\* .strip() raise AttributeError out of run_automation
ValidateInput ==
    /\ pc = "start"
    /\ IF user_data = "nonstring"
         THEN /\ result' = [ErrorResult("AttributeError") EXCEPT !.kind = "raised"]
              /\ pc' = "done"
         ELSE IF InputError(user_data) # ""
         THEN /\ result' = ErrorResult(InputError(user_data))
              /\ pc' = "done"
         ELSE /\ pc' = "create"
              /\ UNCHANGED result
    /\ UNCHANGED <<inputVars, browser, driver, tier_used, loopVars, winVars, trace, catVars, extVars>>

\* line 370 and _create_robust_driver: Chrome may fail to start, or start
\* and then fail in execute_script; either way the exception reaches the
\* handler at line 421 with the local driver still None.
CreateDriver ==
    /\ pc = "create"
    /\ \E outcome \in {"ok", "launch_raises", "script_raises"} :
         IF outcome = "ok"
           THEN /\ browser' = "running"
                /\ driver' = TRUE
                /\ pc' = "email"
                /\ UNCHANGED result
           ELSE /\ browser' = IF outcome = "script_raises" THEN "running" ELSE "none"
                /\ driver' = FALSE
                /\ result' = ErrorResult("Failed to create Chrome driver")
                /\ pc' = "done"
    /\ UNCHANGED <<inputVars, tier_used, loopVars, winVars, trace, catVars, extVars>>

\* lines 376-377
CheckEmail ==
    /\ pc = "email"
    /\ IF user_email
         THEN /\ pc' = "login"
              /\ UNCHANGED <<result, browser>>
         ELSE Return(ErrorResult("No user email provided for login"))
    /\ UNCHANGED <<inputVars, driver, tier_used, loopVars, winVars, trace, catVars, extVars>>
\* mutation: the login result is not looked at
LoginPassed_Unchecked(login_result) == TRUE

\* lines 382-384: what the login result means for the run
LoginPassed(login_result) == login_result = "success"

LoginError(login_result) ==
    IF login_result = "none" THEN "Login step returned no result" ELSE "Login failed"

\* step_2_login returns a dict on every path of its own; the call itself
\* raises NameError when the step modules could not be imported (lines 15-33).
LoginOutcomes == {"success", "failure", "raise"}

\* lines 380-386
Login ==
    /\ pc = "login"
    /\ \E login_result \in LoginOutcomes :
         /\ trace' = Append(trace, Ev("login", Absent, login_result = "success"))
         /\ winUrl' = Navigate(cur, IF login_result = "success" THEN OtherUrl ELSE LoginUrl)
         /\ IF login_result = "raise"
              THEN Return(ErrorResult("exception"))
              ELSE IF LoginPassed(login_result)
                     THEN /\ pc' = "tier1"
                          /\ UNCHANGED <<result, browser>>
                     ELSE Return(ErrorResult(LoginError(login_result)))
    /\ UNCHANGED <<inputVars, driver, tier_used, loopVars, windows, cur, original_window, catVars, extVars>>

\* _validate_job_page_success, lines 101-135
HasFilters(u) == u \in {Tier1Url, Tier2Url, SearchedUrl}

ValidateJobPage(u, cards) == HasFilters(u) \/ cards
\* mutation: the tier label is not updated after Tier 1
TierName_AlwaysFirst(k) == "Tier 1"

TierName(k) == IF k = 1 THEN "Tier 1" ELSE IF k = 2 THEN "Tier 2" ELSE "Tier 3"
\* mutation: the Tier 2 branch is missing from the chain
AfterTier_SkipsTier2(k, ok) ==
    IF ok THEN "apply"
    ELSE IF k = 1 THEN "tier3"
    ELSE IF k = 2 THEN "tier3"
    ELSE "unreachable"

\* the if / elif / else chain of lines 391-398: where control goes after
\* tier k returned ok
AfterTier(k, ok) ==
    IF ok THEN "apply"
    ELSE IF k = 1 THEN "tier2"
    ELSE IF k = 2 THEN "tier3"
    ELSE "unreachable"

TierDone(k, ok) ==
    /\ trace' = Append(trace, Ev("tier", k, ok))
    /\ IF AfterTier(k, ok) = "apply"
         THEN /\ tier_used' = TierName(k)
              /\ pc' = "catalog"
              /\ UNCHANGED <<result, browser>>
         ELSE IF AfterTier(k, ok) = "unreachable"
                THEN /\ Return(ErrorResult("Failed to reach job page"))
                     /\ UNCHANGED tier_used
                ELSE /\ pc' = AfterTier(k, ok)
                     /\ UNCHANGED <<result, browser, tier_used>>

\* _tier1_optimization, lines 137-157
Tier1 ==
    /\ pc = "tier1"
    /\ \E landed \in {"raise", Tier1Url, OtherUrl}, cards \in BOOLEAN :
         IF landed = "raise"
           THEN /\ TierDone(1, FALSE)
                /\ UNCHANGED winUrl
           ELSE /\ winUrl' = Navigate(cur, landed)
                /\ TierDone(1, ValidateJobPage(landed, cards))
    /\ UNCHANGED <<inputVars, driver, loopVars, windows, cur, original_window, catVars, extVars>>

\* _manual_search, lines 194-227: found[s] is what selector s yields.
\* The loop keeps the element of the last selector that found one unless a
\* displayed one stops it earlier.
RECURSIVE SearchField(_, _, _)
SearchField(found, s, field) ==
    IF s > Len(found) THEN field
    ELSE IF found[s] = "absent" THEN SearchField(found, s + 1, field)
    ELSE IF found[s] = "shown" THEN "shown"
    ELSE SearchField(found, s + 1, "hidden")

\* what each of the four search_selectors (lines 200-205) yields
FieldStates == {"absent", "hidden", "shown"}

SearchSelectorOutcomes == {<<a, b, c, d>> : a \in FieldStates, b \in FieldStates, c \in FieldStates, d \in FieldStates}

\* lines 207-223: the element the loop ended with, if any, is typed into;
\* True unless there is none or the typing raises (handler of lines 225-227)
manual_search(found, type_raises) ==
    LET field == SearchField(found, 1, "none")
    IN [field |-> IF field # "none" /\ ~type_raises THEN field ELSE "none",
        ret |-> field # "none" /\ ~type_raises]

\* _tier2_fallback, lines 159-175
Tier2 ==
    /\ pc = "tier2"
    /\ \E get_raises \in BOOLEAN, found \in SearchSelectorOutcomes, type_raises \in BOOLEAN :
         IF get_raises
           THEN /\ TierDone(2, FALSE)
                /\ UNCHANGED winUrl
           ELSE LET typed == manual_search(found, type_raises).ret
                IN /\ winUrl' = Navigate(cur, IF typed THEN SearchedUrl ELSE Tier2Url)
                   /\ TierDone(2, typed)
    /\ UNCHANGED <<inputVars, driver, loopVars, windows, cur, original_window, catVars, extVars>>

\* mutation: Tier 3 reports success once the jobs root is loaded
tier3_full_fallback_Succeeds(get_raises) == ~get_raises

\* what _tier3_full_fallback returns: False after driver.get (line 188) and
\* False from the handler (line 192)
tier3_full_fallback(get_raises) == IF get_raises THEN FALSE ELSE FALSE

\* _tier3_full_fallback, lines 177-192
Tier3 ==
    /\ pc = "tier3"
    /\ \E get_raises \in BOOLEAN :
         /\ winUrl' = IF get_raises THEN winUrl ELSE Navigate(cur, JobsRootUrl)
         /\ TierDone(3, tier3_full_fallback(get_raises))
    /\ UNCHANGED <<inputVars, driver, loopVars, windows, cur, original_window, catVars, extVars>>

\* ------------------------------------------- _apply_to_jobs, lines 229-331
\* line 243: not job_catalog or total_jobs == 0; Absent stands for step 3
\* raising, which the handler at line 324 turns into the same summary
CatalogEmpty(n) == n = Absent \/ n = 0
\* mutation: range(total_jobs - 1), the last entry is never processed
NextPc_SkipsLast(i, n) == IF i + 1 < n - 1 THEN "step4" ELSE "summary"

\* range(total_jobs), line 255: the position after entry i is finished
NextPc(i, n) == IF i + 1 < n THEN "step4" ELSE "summary"
\* mutation: the return is also skipped before the last entry
ReturnNeeded_OffByOne(i, n) == i < n - 2

\* lines 298 and 314: "if not last job"
ReturnNeeded(i, n) == i < n - 1

\* the loop header after `continue` or the end of the body
Advance ==
    /\ pc' = NextPc(job_index, total_jobs)
    /\ job_index' = IF NextPc(job_index, total_jobs) = "step4" THEN job_index + 1 ELSE job_index

\* line 297: the apply chain of entry job_index has ended
AfterApply ==
    IF ReturnNeeded(job_index, total_jobs)
      THEN /\ pc' = "step5"
           /\ UNCHANGED job_index
      ELSE Advance

\* lines 235-252 with step_3_catalog_jobs
Catalog ==
    /\ pc = "catalog"
    /\ filtered_results_url' = Url
    /\ \E n \in (0..MaxJobs) \cup {Absent} :
         /\ trace' = Append(trace, Ev("catalog", n, TRUE))
         /\ IF CatalogEmpty(n)
              THEN /\ pc' = "summary"
                   /\ UNCHANGED <<total_jobs, job_index>>
              ELSE /\ total_jobs' = n
                   /\ job_index' = 0
                   /\ pc' = "step4"
    /\ UNCHANGED <<inputVars, browser, driver, tier_used, applications_completed, applied_jobs, ready_for_next, judged_applied, nav_swallowed, page_verified, winVars, result, catVars, extVars>>

\* ------------------------- step_4_apply_to_job_index, step 4 lines 10-194
Step4Failures == {"no_elements", "out_of_range", "already_applied", "click_failed", "exception"}

\* lines 128-150: a new tab counts only when it shows a job detail page
Step4NewTabSuccess(new_url) == new_url = DetailUrl

\* lines 154-180: in the same window any change of URL counts
Step4SameWindowSuccess(new_url, current_url) == new_url # current_url

OpenHandles == {windows[k] : k \in 1..Len(windows)}

\* the handle the browser gives to a tab it opens
FreeHandle == CHOOSE h \in Handles \ OpenHandles : \A g \in Handles \ OpenHandles : h <= g

\* mutation: the next apply step is run whatever the step returned
ChainEnds_IgnoresFailure(step, ok, next) ==
    /\ trace' = Append(trace, Ev(step, job_index, ok))
    /\ pc' = next
    /\ UNCHANGED job_index

\* lines 263-295 of the controller: a step that returned failure ends the
\* chain of entry job_index
ChainEnds(step, ok, next) ==
    /\ trace' = Append(trace, Ev(step, job_index, ok))
    /\ IF ok
         THEN /\ pc' = next
              /\ UNCHANGED job_index
         ELSE AfterApply

Step4Ends(ok) == ChainEnds("apply", ok, "step8")

\* mutation: the verdict of the already-applied heuristic is not acted on
Step4ReturnsEarly_IgnoresApplied(pre) == pre \notin {"ok", "already_applied"}

\* lines 48-99 and 182-194: the returns of step 4 that come before the
\* navigation check, the one of line 72 (already applied) among them
Step4ReturnsEarly(pre) == pre # "ok"

Step4 ==
    /\ pc = "step4"
    /\ \E pre \in Step4Failures \cup {"ok"}, opened_tab \in BOOLEAN, landed \in {DetailUrl, OtherUrl, "same"} :
         /\ Step4ReturnsEarly(pre) => (~opened_tab /\ landed = "same")
         /\ judged_applied' = (pre = "already_applied" /\ cur # NoWin)
         /\ nav_swallowed' = FALSE
         /\ IF Step4ReturnsEarly(pre) \/ cur = NoWin
           THEN /\ Step4Ends(FALSE)
                /\ UNCHANGED winVars
           ELSE IF opened_tab
                  THEN /\ Len(windows) < MaxWin
                       /\ landed # "same"
                       /\ windows' = Append(windows, FreeHandle)
                       /\ winUrl' = Navigate(FreeHandle, landed)
                       /\ IF Step4NewTabSuccess(landed)
                            THEN /\ cur' = FreeHandle
                                 /\ original_window' = cur
                            ELSE UNCHANGED <<cur, original_window>>
                       /\ Step4Ends(Step4NewTabSuccess(landed))
                  ELSE LET new_url == IF landed = "same" THEN Url ELSE landed
                       IN /\ winUrl' = Navigate(cur, new_url)
                          /\ Step4Ends(Step4SameWindowSuccess(new_url, Url))
                          /\ UNCHANGED <<windows, cur, original_window>>
    /\ UNCHANGED <<inputVars, browser, driver, tier_used, total_jobs, applications_completed, applied_jobs, filtered_results_url, ready_for_next, page_verified, result, catVars, extVars>>

\* step_8_click_next (dice_step_8.py lines 11-74), called at line 268
Step8 ==
    /\ pc = "step8"
    /\ \E ok \in BOOLEAN :
         /\ winUrl' = IF ok /\ cur # NoWin THEN Navigate(cur, ApplyUrl) ELSE winUrl
         /\ ChainEnds("s8", ok, "step9")
    /\ UNCHANGED <<inputVars, browser, driver, tier_used, total_jobs, applications_completed, applied_jobs, filtered_results_url, nav_swallowed, judged_applied, ready_for_next, page_verified, windows, cur, original_window, result, catVars, extVars>>

\* step_9_submit_application (dice_step_9.py lines 8-77), called at line 272
Step9 ==
    /\ pc = "step9"
    /\ \E ok \in BOOLEAN : ChainEnds("s9", ok, "step10")
    /\ UNCHANGED <<inputVars, browser, driver, tier_used, total_jobs, applications_completed, applied_jobs, filtered_results_url, nav_swallowed, judged_applied, ready_for_next, page_verified, winVars, result, catVars, extVars>>
\* mutation: the submission is counted without looking at the confirmation
Submitted_Unchecked(confirmed) == TRUE

\* line 277: result and result.get('submission_confirmed')
Submitted(confirmed) == confirmed

\* step_10_handle_confirmation_and_return (dice_step_10.py lines 9-95) and
\* lines 276-288 of the controller.  After a confirmed submission step 10
\* leaves the confirmation page through _return_to_job_search.
Step10 ==
    /\ pc = "step10"
    /\ \E confirmed \in BOOLEAN, landed \in {JobsRootUrl, OtherUrl, ConfirmUrl} :
         /\ winUrl' = IF confirmed /\ cur # NoWin THEN Navigate(cur, landed) ELSE winUrl
         /\ IF Submitted(confirmed)
              THEN /\ applications_completed' = applications_completed + 1
                   /\ applied_jobs' = Append(applied_jobs, job_index)
              ELSE UNCHANGED <<applications_completed, applied_jobs>>
         /\ trace' = Append(trace, Ev("s10", job_index, confirmed))
         /\ AfterApply
    /\ UNCHANGED <<inputVars, browser, driver, tier_used, total_jobs, filtered_results_url, nav_swallowed, judged_applied, ready_for_next, page_verified, windows, cur, original_window, result, catVars, extVars>>

\* ------------------------------ step_5_loop_return, step 5 lines 8-147
RemoveWin(ws, h) == SelectSeq(ws, LAMBDA x : x # h)

InSeq(h, ws) == \E k \in 1..Len(ws) : ws[k] = h

\* lines 33-71: close the tab of the finished entry and go back to the
\* original window.  raised: switch_to.window failed (NoSuchWindow).
Step5Windows ==
    IF cur = NoWin
      THEN [windows |-> windows, winUrl |-> winUrl, cur |-> cur, raised |-> TRUE]
    ELSE IF Len(windows) > 1
      THEN IF original_window # NoWin
             THEN LET closing == cur # original_window
                      ws1 == IF closing THEN RemoveWin(windows, cur) ELSE windows
                      wu1 == IF closing THEN [winUrl EXCEPT ![cur] = ClosedUrl] ELSE winUrl
                      okay == InSeq(original_window, ws1)
                  IN [windows |-> ws1, winUrl |-> wu1, cur |-> IF okay THEN original_window ELSE NoWin, raised |-> ~okay]
             ELSE LET matches == {k \in 1..Len(windows) : winUrl[windows[k]] = filtered_results_url}
                      first == CHOOSE k \in matches : \A j \in matches : k <= j
                  IN IF matches = {}
                       THEN [windows |-> windows, winUrl |-> winUrl, cur |-> windows[Len(windows)], raised |-> FALSE]
                       ELSE [windows |-> <<windows[first]>>,
                             winUrl |-> [h \in Handles |-> IF h = windows[first] THEN winUrl[h] ELSE ClosedUrl],
                             cur |-> windows[first], raised |-> FALSE]
      ELSE [windows |-> windows, winUrl |-> winUrl, cur |-> cur, raised |-> FALSE]

\* _verify_on_results_page, lines 150-187
SearchLike(u) == u \in {Tier1Url, Tier2Url, SearchedUrl, JobsRootUrl}

VerifyOnResultsPage(u, listings, raises) == ~raises /\ SearchLike(u) /\ (listings \/ HasFilters(u))
\* mutation: the handler reports ready without a successful navigation
Step5Handler_ContinueAnyway(wu, c, get3_raises, read_raises) ==
    IF c # NoWin /\ ~get3_raises
      THEN [winUrl |-> [wu EXCEPT ![c] = filtered_results_url], ready |-> "true", verified |-> FALSE]
      ELSE [winUrl |-> wu, ready |-> "true", verified |-> FALSE]

\* lines 124-147: the handler navigates once more; when that raises too it
\* reports ready_for_next False, and reading driver.current_url for that
\* report can itself raise out of step 5
Step5Handler(wu, c, get3_raises, read_raises) ==
    IF c # NoWin /\ ~get3_raises
      THEN [winUrl |-> [wu EXCEPT ![c] = filtered_results_url], ready |-> "true", verified |-> FALSE]
    ELSE IF c = NoWin \/ read_raises
      THEN [winUrl |-> wu, ready |-> "raise", verified |-> FALSE]
    ELSE [winUrl |-> wu, ready |-> "false", verified |-> FALSE]

\* what _verify_ready_for_next_job (lines 190-228) meets: the document is
\* complete, no loading indicator is displayed and a listing link is
\* present; the page is still loading; no listing link; or the check raises
ReadyChecks == {"ready", "loading", "no_listings", "raises"}

\* lines 73-122: navigate unless already there, verify, navigate again when
\* the verification failed.  Every path that ends in the try block reports
\* ready_for_next True, whatever the two verifications found.
Step5Nav(rec, get1_raises, get2_raises, get3_raises, read_raises, listings, verify_raises, check) ==
    IF rec.raised
      THEN Step5Handler(rec.winUrl, rec.cur, get3_raises, read_raises)
    ELSE IF rec.winUrl[rec.cur] # filtered_results_url /\ get1_raises
      THEN Step5Handler(rec.winUrl, rec.cur, get3_raises, read_raises)
    ELSE LET wu1 == [rec.winUrl EXCEPT ![rec.cur] = filtered_results_url]
         IN IF VerifyOnResultsPage(filtered_results_url, listings, verify_raises)
              THEN [winUrl |-> wu1, ready |-> "true", verified |-> check = "ready"]
            ELSE IF get2_raises
              THEN Step5Handler(wu1, rec.cur, get3_raises, read_raises)
            ELSE [winUrl |-> wu1, ready |-> "true", verified |-> FALSE]

\* An outcome that the path taken never reads is held at one value: a
\* later outcome of a path that ended in the first navigation, the
\* listings when the verification raised, the handler's URL read when its
\* navigation worked, the readiness check unless the verification passed.
Step5InputsRead(g1, g2, g3, rd, listings, vr, check) ==
    /\ g1 => (~g2 /\ ~listings /\ ~vr)
    /\ vr => ~listings
    /\ ~g3 => ~rd
    /\ check # "ready" => (~g1 /\ ~g2 /\ ~g3 /\ ~vr)

\* line 300: the call of step 5
Step5 ==
    /\ pc = "step5"
    /\ \E g1 \in BOOLEAN, g2 \in BOOLEAN, g3 \in BOOLEAN, rd \in BOOLEAN, listings \in BOOLEAN, vr \in BOOLEAN, check \in ReadyChecks :
         LET rec == Step5Windows
             out == Step5Nav(rec, g1, g2, g3, rd, listings, vr, check)
         IN /\ Step5InputsRead(g1, g2, g3, rd, listings, vr, check)
            /\ windows' = rec.windows
            /\ page_verified' = out.verified
            /\ judged_applied' = FALSE
            /\ cur' = rec.cur
            /\ winUrl' = out.winUrl
            /\ ready_for_next' = (out.ready = "true")
            /\ trace' = Append(trace, Ev("return", job_index, TRUE))
            /\ pc' = IF out.ready = "raise" THEN "except" ELSE "returned"
    /\ UNCHANGED <<inputVars, browser, driver, tier_used, total_jobs, job_index, applications_completed, applied_jobs, filtered_results_url, nav_swallowed, original_window, result, catVars, extVars>>

\* lines 302-306: loop_result and loop_result.get('ready_for_next');
\* loop_result is not read again before the next step 5 overwrites it
CheckReady ==
    /\ pc = "returned"
    /\ IF ready_for_next
         THEN Advance
         ELSE /\ pc' = "fallback"
              /\ UNCHANGED job_index
    /\ ready_for_next' = FALSE
    /\ page_verified' = FALSE
    /\ UNCHANGED <<inputVars, browser, driver, tier_used, total_jobs, applications_completed, applied_jobs, filtered_results_url, nav_swallowed, judged_applied, winVars, result, trace, catVars, extVars>>

\* lines 305-309: step 5 did not report ready, navigate back directly
FallbackGet ==
    /\ pc = "fallback"
    /\ \E get_raises \in BOOLEAN :
         IF get_raises \/ cur = NoWin
           THEN /\ pc' = "except"
                /\ UNCHANGED <<job_index, winUrl>>
           ELSE /\ winUrl' = Navigate(cur, filtered_results_url)
                /\ Advance
    /\ UNCHANGED <<inputVars, browser, driver, tier_used, total_jobs, applications_completed, applied_jobs, filtered_results_url, nav_swallowed, judged_applied, ready_for_next, page_verified, windows, cur, original_window, result, trace, catVars, extVars>>

\* lines 311-320: an exception while entry job_index was processed
\* mutation: the handler goes on without navigating
HandlerNavigates_Never(i, n, get_fails) == FALSE

\* lines 314-319: driver.get(filtered_results_url) is called when entry i
\* is not the last one, and what it raises is swallowed
HandlerNavigates(i, n, get_fails) == ReturnNeeded(i, n) /\ ~get_fails

ExceptHandler ==
    /\ pc = "except"
    /\ \E get_raises \in BOOLEAN :
         LET get_fails == get_raises \/ cur = NoWin
         IN /\ winUrl' = IF HandlerNavigates(job_index, total_jobs, get_fails)
                           THEN Navigate(cur, filtered_results_url)
                           ELSE winUrl
            /\ nav_swallowed' = (ReturnNeeded(job_index, total_jobs) /\ get_fails)
    /\ trace' = Append(trace, Ev("except", job_index, TRUE))
    /\ Advance
    /\ ready_for_next' = FALSE
    /\ page_verified' = FALSE
    /\ UNCHANGED <<inputVars, browser, driver, tier_used, total_jobs, applications_completed, applied_jobs, filtered_results_url, judged_applied, windows, cur, original_window, result, catVars, extVars>>

\* line 328 of _apply_to_jobs
LoopSuccess(applications) == applications > 0

\* line 411 of run_automation: the dict returned after the loop
RunSuccess(loop_success) == TRUE

\* lines 322-331 and 408-419
Summary ==
    /\ pc = "summary"
    /\ Return([kind |-> "summary", success |-> RunSuccess(LoopSuccess(applications_completed)), error |-> "",
               tier_used |-> tier_used, total_applications |-> applications_completed, applied_jobs |-> applied_jobs])
    /\ UNCHANGED <<inputVars, driver, tier_used, loopVars, winVars, trace, catVars, extVars>>

Next ==
    \/ ValidateInput
    \/ CreateDriver
    \/ CheckEmail
    \/ Login
    \/ Tier1
    \/ Tier2
    \/ Tier3
    \/ Catalog
    \/ Step4
    \/ Step8
    \/ Step9
    \/ Step10
    \/ Step5
    \/ CheckReady
    \/ FallbackGet
    \/ ExceptHandler
    \/ Summary

Spec == Init /\ [][Next]_vars

\* ------- _find_all_job_elements, dice_step_3_catalog_jobs.py lines 113-161
\* (dice_step_4_apply_to_job_index.py lines 197-240 is the same code)
\* An element of the page: its href, whether is_displayed() answers True,
\* False or raises, the selectors among 1..8 that match it, and its
\* vertical position.  Selector 9 is the generic a[href*='/job-detail/'].
JobHrefs == {"/job-detail/a", "/job-detail/b"}

OtherHref == "/company/c"

SelectorSets == {{}, {1, 3, 7}}

Rows == {0, 1}

JobElements == [href : JobHrefs, vis : {"shown", "hidden", "stale"}, sels : SelectorSets, y : Rows]

OtherElements == [href : {OtherHref}, vis : {"shown"}, sels : {{}}, y : {0}]

Elements == JobElements \cup OtherElements

\* every one of the nine selectors requires href*='/job-detail/'
IsJobHref(href) == href \in JobHrefs

Matches(e, s) == IsJobHref(e.href) /\ (s = NumSelectors \/ s \in e.sels)

\* driver.find_elements(By.CSS_SELECTOR, selector): positions in document order
FindElements(pg, s) == SelectSeq([k \in 1..Len(pg) |-> k], LAMBDA k : Matches(pg[k], s))
\* mutation: the seen_hrefs test is missing
KeepHref_NoDedup(href, seen) == href \in JobHrefs

\* line 144: href and '/job-detail/' in href and href not in seen_hrefs
KeepHref(href, seen) == IsJobHref(href) /\ href \notin seen

\* lines 139-148: the inner loop over the elements one selector found
RECURSIVE ScanElements(_, _, _, _)
ScanElements(pg, found, k, acc) ==
    IF k > Len(found) THEN acc
    ELSE LET e == pg[found[k]]
         IN IF e.vis = "shown" /\ KeepHref(e.href, acc.seen)
              THEN ScanElements(pg, found, k + 1, [elems |-> Append(acc.elems, found[k]), seen |-> acc.seen \cup {e.href}])
              ELSE ScanElements(pg, found, k + 1, acc)

\* lines 136-151: the loop over job_card_selectors
RECURSIVE ScanSelectors(_, _, _)
ScanSelectors(pg, s, acc) ==
    IF s > NumSelectors THEN acc
    ELSE ScanSelectors(pg, s + 1, ScanElements(pg, FindElements(pg, s), 1, acc))

\* line 157: list.sort by (y, x) is stable; insertion keeps equal keys in order
RECURSIVE InsertByY(_, _, _)
InsertByY(pg, sorted, id) ==
    IF sorted = <<>> THEN <<id>>
    ELSE IF pg[sorted[Len(sorted)]].y <= pg[id].y THEN Append(sorted, id)
    ELSE Append(InsertByY(pg, SubSeq(sorted, 1, Len(sorted) - 1), id), sorted[Len(sorted)])

RECURSIVE SortByPosition(_, _, _)
SortByPosition(pg, elems, k) ==
    IF k = 0 THEN <<>>
    ELSE InsertByY(pg, SortByPosition(pg, elems, k - 1), elems[k])

FindAllJobElements(pg) ==
    LET acc == ScanSelectors(pg, 1, [elems |-> <<>>, seen |-> {}])
    IN SortByPosition(pg, acc.elems, Len(acc.elems))

\* the page the browser shows when the catalog is built
BuildPage ==
    /\ ~cataloged
    /\ Len(page) < MaxElems
    /\ \E e \in Elements : page' = Append(page, e)
    /\ UNCHANGED <<runVars, catalog, cataloged, extVars>>

CatalogPage ==
    /\ ~cataloged
    /\ catalog' = FindAllJobElements(page)
    /\ cataloged' = TRUE
    /\ UNCHANGED <<runVars, page, extVars>>

InitCatalog ==
    /\ IdleExcept("catalog")
    /\ page = <<>>
    /\ catalog = <<>>
    /\ cataloged = FALSE

NextCatalog ==
    \/ BuildPage
    \/ CatalogPage

SpecCatalog == InitCatalog /\ [][NextCatalog]_vars

\* ------------------------------------------- multi-strategy element lookups
\* aps_fill        APSAutomation._fill_field_by_multiple_strategies (aps_automation.py
\*                 lines 274-316; aston_carter_automation.py lines 345-394 is the same loop)
\* frontline_fill  FrontlineSourceAutomation._fill_field_strategies (lines 143-167)
\* kp_fill         KPStaffingAutomation._fill_field (lines 120-132), a single selector
\* enter_email     _enter_email (dice_step_2_login.py lines 247-286)
\* find_next       _find_next_button (dice_step_9.py lines 79-193)
LookupKinds == {"aps_fill", "frontline_fill", "kp_fill", "enter_email", "find_next"}

\* What one strategy meets.  absent: the locator finds nothing (timeout or
\* NoSuchElement); raises: the locator call raises something else; hidden,
\* disabled: a candidate that is not displayed, not enabled; act_raises: a
\* displayed and enabled candidate whose clear()/send_keys() raises; empty,
\* value: a displayed and enabled candidate that took the keys and whose
\* value attribute is then empty, non-empty (for find_next: a displayed and
\* enabled button that fails, passes the text test of lines 113-125).
OutcomesOf(kind) ==
    CASE kind = "aps_fill" -> {"absent", "raises", "hidden", "disabled", "act_raises", "empty", "value"}
      [] kind = "frontline_fill" -> {"absent", "raises", "act_raises", "empty", "value"}
      [] kind = "kp_fill" -> {"absent", "act_raises", "empty", "value"}
      [] kind = "enter_email" -> {"absent", "hidden", "disabled", "act_raises", "empty", "value"}
      [] kind = "find_next" -> {"absent", "raises", "hidden", "disabled", "empty", "value"}

\* length of the selector list
StrategiesOf(kind) == IF kind = "kp_fill" THEN 1 ELSE MaxStrategies

\* if not value: return False (aps line 282, frontline line 144, kpstaffing line 121)
ChecksValue(kind) == kind \in {"aps_fill", "frontline_fill", "kp_fill"}

\* entered_value = element.get_attribute('value') (aps line 304, frontline line 160)
ReadsBack(kind) == kind \in {"aps_fill", "frontline_fill"}

\* mutation: the first displayed and enabled candidate ends the lookup
StrategyStops_OnAnyCandidate(kind, out) == out \in {"empty", "value"}

\* the return inside the loop: aps line 307 and frontline line 162 under
\* `if entered_value`, kpstaffing line 128 and _enter_email line 265 right
\* after send_keys, _find_next_button lines 120 and 125 after the text test
StrategyStops(kind, out) ==
    IF kind \in {"kp_fill", "enter_email"} THEN out \in {"empty", "value"}
    ELSE out = "value"

LookupNoValue ==
    /\ lk_ret = "running"
    /\ ChecksValue(lk_kind)
    /\ ~lk_value
    /\ lk_ret' = "false"
    /\ UNCHANGED <<runVars, catVars, submitVars, searchVars, clickVars, orchestrationVars, restartVars, recatalogVars, trackerVars, lk_kind, lk_value, lk_i, lk_tried, lk_readback, formVars, boardVars, loginVars, driverVars, platformVars>>

\* one turn of the for loop over the selectors
TryStrategy ==
    /\ lk_ret = "running"
    /\ lk_kind \in LookupKinds
    /\ ChecksValue(lk_kind) => lk_value
    /\ lk_i <= StrategiesOf(lk_kind)
    /\ \E out \in OutcomesOf(lk_kind) :
         /\ lk_tried' = Append(lk_tried, [k |-> lk_i, out |-> out])
         /\ lk_readback' = IF ReadsBack(lk_kind) /\ out \in {"empty", "value"} THEN out ELSE lk_readback
         /\ IF StrategyStops(lk_kind, out)
              THEN lk_ret' = "true" /\ UNCHANGED lk_i
              ELSE lk_i' = lk_i + 1 /\ UNCHANGED lk_ret
    /\ UNCHANGED <<runVars, catVars, submitVars, searchVars, clickVars, orchestrationVars, restartVars, recatalogVars, trackerVars, lk_kind, lk_value, formVars, boardVars, loginVars, driverVars, platformVars>>

\* the return after the loop (aps line 316, frontline line 167, kpstaffing
\* line 132, _enter_email line 286, _find_next_button line 193)
LookupExhausted ==
    /\ lk_ret = "running"
    /\ lk_kind \in LookupKinds
    /\ lk_i > StrategiesOf(lk_kind)
    /\ lk_ret' = "false"
    /\ UNCHANGED <<runVars, catVars, submitVars, searchVars, clickVars, orchestrationVars, restartVars, recatalogVars, trackerVars, lk_kind, lk_value, lk_i, lk_tried, lk_readback, formVars, boardVars, loginVars, driverVars, platformVars>>

InitLookup ==
    /\ IdleExcept("lookup")
    /\ lk_kind \in LookupKinds
    /\ lk_value \in (IF ChecksValue(lk_kind) THEN BOOLEAN ELSE {TRUE})
    /\ lk_i = 1
    /\ lk_tried = <<>>
    /\ lk_readback = "none"
    /\ lk_ret = "running"

NextLookup ==
    \/ LookupNoValue
    \/ TryStrategy
    \/ LookupExhausted

SpecLookup == InitLookup /\ [][NextLookup]_vars

\* ------------------------------------------- the form fill of a job board
\* aps           APSAutomation._fill_job_candidate_form (aps_automation.py 147-272)
\* aston_carter  AstonCarterAutomation._fill_talent_network_form (213-343)
\* kpstaffing    KPStaffingAutomation._fill_form_fast (78-118)
\* frontline     FrontlineSourceAutomation._fill_form_fast (77-141)
Boards == {"aps", "aston_carter", "kpstaffing", "frontline"}

\* the fill calls of each form, in the order the code makes them
FieldsOf(board) ==
    CASE board = "aps" -> <<"first_name", "last_name", "email", "phone", "job_type", "resume">>
      [] board = "aston_carter" -> <<"first_name", "last_name", "email", "phone", "country", "job_category">>
      [] board = "kpstaffing" -> <<"first_name", "last_name", "email", "phone", "zip_code">>
      [] board = "frontline" -> <<"first_name", "last_name", "email", "phone", "resume">>

\* required = [...] (aps line 261, aston_carter line 332); the two fast
\* forms keep no such list: their required roles are the four contact fields
RequiredOf(board) ==
    IF board = "aston_carter" THEN {"first_name", "last_name", "email", "phone", "job_category"}
    ELSE {"first_name", "last_name", "email", "phone"}

\* filled_fields[...] = True is written by aps and aston_carter only; the
\* fast forms drop what _fill_field / _fill_field_strategies return
TracksFilled(board) == board \in {"aps", "aston_carter"}

\* wait.until(presence of the form) opens the try block of aps (line 159),
\* aston_carter (line 225) and frontline (line 80)
WaitsForForm(board) == board # "kpstaffing"

\* aps lines 261-268, aston_carter lines 332-339; kpstaffing line 114 and
\* frontline line 137 return True whatever the fill calls returned
FormAcceptable(board, filled) ==
    IF TracksFilled(board) THEN Cardinality(RequiredOf(board) \ filled) <= 1 ELSE TRUE

FormWait ==
    /\ form_pc = "wait"
    /\ form_board \in Boards
    /\ \E raises \in (IF WaitsForForm(form_board) THEN BOOLEAN ELSE {FALSE}) :
         IF raises
           THEN form_pc' = "error" /\ form_ok' = FALSE
           ELSE form_pc' = "fields" /\ UNCHANGED form_ok
    /\ UNCHANGED <<runVars, catVars, submitVars, searchVars, clickVars, orchestrationVars, restartVars, recatalogVars, trackerVars, lookupVars, boardVars, loginVars, driverVars, platformVars, form_board, form_role, filled_fields, unresolved>>

\* one fill call; it returns True or False and never raises
FillField ==
    /\ form_pc = "fields"
    /\ form_role <= Len(FieldsOf(form_board))
    /\ \E ret \in BOOLEAN :
         LET role == FieldsOf(form_board)[form_role]
         IN /\ filled_fields' = IF ret /\ TracksFilled(form_board) THEN filled_fields \cup {role} ELSE filled_fields
            /\ unresolved' = IF ret THEN unresolved ELSE unresolved \cup {role}
    /\ form_role' = form_role + 1
    /\ UNCHANGED <<runVars, catVars, submitVars, searchVars, clickVars, orchestrationVars, restartVars, recatalogVars, trackerVars, lookupVars, boardVars, loginVars, driverVars, platformVars, form_board, form_pc, form_ok>>

\* the end of the form fill: the stop callback (aps line 254, aston_carter
\* line 325) and the count of missing required fields
FormCheck ==
    /\ form_pc = "fields"
    /\ form_role > Len(FieldsOf(form_board))
    /\ \E stop \in (IF TracksFilled(form_board) THEN BOOLEAN ELSE {FALSE}) :
         IF stop
           THEN form_pc' = "stopped" /\ form_ok' = FALSE
           ELSE form_pc' = "done" /\ form_ok' = FormAcceptable(form_board, filled_fields)
    /\ UNCHANGED <<runVars, catVars, submitVars, searchVars, clickVars, orchestrationVars, restartVars, recatalogVars, trackerVars, lookupVars, boardVars, loginVars, driverVars, platformVars, form_board, form_role, filled_fields, unresolved>>

InitForm ==
    /\ IdleExcept("form")
    /\ form_board \in Boards
    /\ form_pc = "wait"
    /\ form_role = 1
    /\ filled_fields = {}
    /\ unresolved = {}
    /\ form_ok = FALSE

NextForm ==
    \/ FormWait
    \/ FillField
    \/ FormCheck

SpecForm == InitForm /\ [][NextForm]_vars

\* ------------------------- the job-board run and its stop request
\* GovernmentAssistant._run_Government_automation (government_assistant.py
\* lines 127-203) runs in its own thread; stop_automation
\* (job-board-assistant.py lines 396-403) is served by another one.  The
\* orchestrator hands itself over with set_stop_flag_reference before the
\* run starts, so stop_flag_ref is set throughout.
BoardIds == 1..MaxBoards

\* the selected boards: one to MaxBoards ids; an id may be listed twice
BoardLists == UNION {[1..n -> BoardIds] : n \in 1..MaxBoards}

\* self.stop_requested = True
StopAutomation ==
    /\ ~stop_requested
    /\ stop_requested' = TRUE
    /\ rs_stopped' = TRUE
    /\ UNCHANGED <<runVars, catVars, submitVars, searchVars, clickVars, orchestrationVars, recatalogVars, trackerVars, lookupVars, formVars, gb_pc, gb_boards, gb_i, gb_started, completed_boards, gb_results, loginVars, driverVars, platformVars>>

\* mutation: the flag is not looked at
StopSeen_Never(flag) == FALSE

\* line 141: self.stop_flag_ref and self.stop_flag_ref.stop_requested
StopSeen(flag) == flag

\* mutation: a board is never skipped
AlreadyCompleted_Never(board_id, done) == FALSE

\* line 149: board_id in self.completed_boards
AlreadyCompleted(board_id, done) == board_id \in done

\* lines 139-159: the head of one loop turn, up to the call of the automation
BoardLoopHead ==
    /\ gb_pc = "loop"
    /\ IF gb_i > Len(gb_boards) \/ StopSeen(stop_requested)
         THEN gb_pc' = "done" /\ UNCHANGED <<gb_i, gb_started>>
         ELSE IF AlreadyCompleted(gb_boards[gb_i], completed_boards)
                THEN gb_i' = gb_i + 1 /\ UNCHANGED <<gb_pc, gb_started>>
                ELSE /\ gb_started' = Append(gb_started, gb_i)
                     /\ gb_pc' = "call"
                     /\ UNCHANGED gb_i
    /\ UNCHANGED <<runVars, catVars, submitVars, searchVars, clickVars, orchestrationVars, restartVars, recatalogVars, trackerVars, lookupVars, formVars, stop_requested, gb_boards, completed_boards, gb_results, loginVars, driverVars, platformVars>>

\* lines 161-188 with _call_website_automation (lines 205-250): the board's
\* submit_application runs to its end and reports success or not; an
\* unknown site and every exception are failures
CallWebsiteAutomation ==
    /\ gb_pc = "call"
    /\ \E success \in BOOLEAN :
         /\ gb_results' = Append(gb_results, [i |-> gb_i, success |-> success])
         /\ completed_boards' = IF success THEN completed_boards \cup {gb_boards[gb_i]} ELSE completed_boards
    /\ gb_i' = gb_i + 1
    /\ gb_pc' = "loop"
    /\ UNCHANGED <<runVars, catVars, submitVars, searchVars, clickVars, orchestrationVars, restartVars, recatalogVars, trackerVars, lookupVars, formVars, stop_requested, gb_boards, gb_started, loginVars, driverVars, platformVars>>

InitBoards ==
    /\ IdleExcept("boards")
    /\ stop_requested = FALSE
    /\ gb_pc = "loop"
    /\ gb_boards \in BoardLists
    /\ gb_i = 1
    /\ gb_started = <<>>
    /\ completed_boards = {}
    /\ gb_results = <<>>

NextBoards ==
    \/ StopAutomation
    \/ BoardLoopHead
    \/ CallWebsiteAutomation

SpecBoards == InitBoards /\ [][NextBoards]_vars

\* ------------------------- a later start request while the run goes on
\* JobBoardAssistant.start_automation, job-board-assistant.py lines 345-382:
\* the orchestrator object is shared by all requests; the later request
\* resets its stop flag (line 346) and starts a thread of its own, which
\* creates its own assistant (lines 498-517) and so shares nothing else
\* with the run that is under way.
StartAutomation ==
    /\ stop_requested' = FALSE
    /\ UNCHANGED <<runVars, catVars, submitVars, searchVars, clickVars, orchestrationVars, recatalogVars, trackerVars, lookupVars, formVars, gb_pc, gb_boards, gb_i, gb_started, completed_boards, gb_results, loginVars, driverVars, platformVars, rs_stopped>>

NextRestart ==
    \/ NextBoards
    \/ StartAutomation

SpecRestart == InitBoards /\ [][NextRestart]_vars

\* ------------------------- the orchestration thread of a job-board run
\* JobBoardAssistant._run_industry_orchestration (job-board-assistant.py
\* lines 405-466) with GovernmentAssistant.start_automation
\* (government_assistant.py lines 76-125), which starts the board loop in a
\* thread of its own and returns at once.
\* board: the board id of a row, 0 for the single 'failed' row of line 450
BoardRecords(status) == [k \in 1..Len(gb_boards) |-> [board |-> gb_boards[k], status |-> status]]

\* record_board_submissions, lines 222-273: one 'submitted' row per board,
\* nothing when the store cannot be reached or an INSERT raises
record_board_submissions(store_ok) == IF store_ok THEN BoardRecords("submitted") ELSE <<>>

\* lines 416-429: no assistant for the industry (rows are written all the
\* same, lines 418-422), or the assistant is set up and started
StartIndustryAssistant ==
    /\ or_pc = "begin"
    /\ \E assistant \in BOOLEAN, store_ok \in BOOLEAN :
         /\ assistant => store_ok
         /\ IF ~assistant
              THEN /\ or_records' = or_records \o record_board_submissions(store_ok)
                   /\ or_pc' = "ended"
              ELSE /\ or_pc' = IF stop_requested THEN "refused" ELSE "started"
                   /\ UNCHANGED or_records
    /\ UNCHANGED <<runVars, catVars, submitVars, searchVars, clickVars, restartVars, recatalogVars, trackerVars, lookupVars, formVars, boardVars, loginVars, driverVars, platformVars>>

\* lines 431-461: result.get('success') is True as soon as the thread of
\* the board loop was started
RecordOrchestration ==
    /\ or_pc \in {"started", "refused"}
    /\ \E store_ok \in BOOLEAN :
         or_records' = or_records \o
            (IF or_pc = "started" THEN record_board_submissions(store_ok)
             ELSE IF store_ok THEN <<[board |-> 0, status |-> "failed"]>> ELSE <<>>)
    /\ or_pc' = IF or_pc = "started" THEN "recorded" ELSE "ended"
    /\ UNCHANGED <<runVars, catVars, submitVars, searchVars, clickVars, restartVars, recatalogVars, trackerVars, lookupVars, formVars, boardVars, loginVars, driverVars, platformVars>>

\* the board loop runs once start_automation has started its thread
BoardThread ==
    /\ or_pc \in {"started", "recorded"}
    /\ BoardLoopHead \/ CallWebsiteAutomation

NextOrchestration ==
    \/ StartIndustryAssistant
    \/ RecordOrchestration
    \/ BoardThread
    \/ StopAutomation

SpecOrchestration == InitBoards /\ [][NextOrchestration]_vars

\* ------------------------- the Dice run with a stop request arriving
\* DiceAssistant and ApplicationAssistant hold no stop flag; the only one
\* in the program is JobBoardAssistant.stop_requested, set while a run is
\* under way.
NextStop ==
    \/ Next
    \/ StopAutomation /\ pc \notin {"start", "done"}

SpecStop == Init /\ [][NextStop]_vars

\* ------------------------------ step_2_login, dice_step_2_login.py 10-150
\* login_urls (lines 64-67)
LoginUrls == <<"/dashboard/login", "/login">>

\* How far the flow gets at one URL: driver.get raises, _enter_email
\* returns False, _enter_password returns False, some other call raises,
\* or the flow reaches _verify_login_success.
LoginStages == {"get_raises", "email_failed", "password_failed", "step_raises", "verify"}

\* What _verify_login_success meets: 'login' in the URL, an authenticated
\* indicator on the page, a displayed error text, an exception.
LoginSignals == [on_login : BOOLEAN, auth : BOOLEAN, error : BOOLEAN, raises : BOOLEAN]

NoSignals == [on_login |-> TRUE, auth |-> FALSE, error |-> FALSE, raises |-> FALSE]

\* _verify_login_success, lines 438-485: True off the login page with an
\* authenticated indicator (before the error test); False on a displayed
\* error; True in every other case (lines 476-481)
VerifyLoginSuccess(sig) ==
    IF sig.raises THEN FALSE
    ELSE IF ~sig.on_login /\ sig.auth THEN TRUE
    ELSE ~sig.error

\* lines 44-50
LoadCredentials ==
    /\ lg_pc = "creds"
    /\ \E found \in BOOLEAN :
         IF found
           THEN lg_pc' = "urls" /\ UNCHANGED lg_result
           ELSE lg_pc' = "done" /\ lg_result' = "no_credentials"
    /\ UNCHANGED <<runVars, catVars, submitVars, searchVars, clickVars, orchestrationVars, restartVars, recatalogVars, trackerVars, lookupVars, formVars, boardVars, lg_url, lg_attempts, driverVars, platformVars>>

\* mutation: the loop gives up after the first URL
LastLoginUrl_First(k) == TRUE

\* the for loop over login_urls ends after its last element
LastLoginUrl(k) == k = Len(LoginUrls)

\* lines 71-137: one turn of the loop over login_urls and, after the last
\* turn or the break, the return
TryLoginUrl ==
    /\ lg_pc = "urls"
    /\ \E stage \in LoginStages :
       \E sig \in (IF stage = "verify" THEN LoginSignals ELSE {NoSignals}) :
         LET ok == stage = "verify" /\ VerifyLoginSuccess(sig)
         IN /\ lg_attempts' = Append(lg_attempts, [url |-> lg_url, stage |-> stage, sig |-> sig, ok |-> ok])
            /\ IF ok
                 THEN lg_pc' = "done" /\ lg_result' = "success" /\ UNCHANGED lg_url
                 ELSE IF LastLoginUrl(lg_url)
                        THEN lg_pc' = "done" /\ lg_result' = "all_failed" /\ UNCHANGED lg_url
                        ELSE lg_url' = lg_url + 1 /\ UNCHANGED <<lg_pc, lg_result>>
    /\ UNCHANGED <<runVars, catVars, submitVars, searchVars, clickVars, orchestrationVars, restartVars, recatalogVars, trackerVars, lookupVars, formVars, boardVars, driverVars, platformVars>>

InitLogin ==
    /\ IdleExcept("login")
    /\ lg_pc = "creds"
    /\ lg_url = 1
    /\ lg_attempts = <<>>
    /\ lg_result = "none"

NextLogin ==
    \/ LoadCredentials
    \/ TryLoginUrl

SpecLogin == InitLogin /\ [][NextLogin]_vars

\* ----------------------------------------------- browser session creation
\* application  ApplicationAssistant._create_robust_driver (application-assistant.py 691-806)
\* dice         DiceAssistant._create_robust_driver (dice-assistant.py 74-99)
\* How one attempt ends: ChromeDriverManager().install() raises,
\* webdriver.Chrome raises, execute_script raises, execute_cdp_cmd raises
\* (application, headless), or the driver is returned.
AttemptOutcomes(owner) ==
    IF owner = "application" THEN {"ok", "install_raises", "launch_raises", "script_raises", "cdp_raises"}
    ELSE {"ok", "install_raises", "launch_raises", "script_raises"}

\* range(max_retries) in application-assistant.py; dice-assistant.py has no loop
AttemptsOf(owner) == IF owner = "application" THEN max_retries ELSE 1

\* application lines 773-806, dice lines 89-99
CreateAttempt ==
    /\ dc_state = "running"
    /\ dc_owner \in {"application", "dice"}
    /\ \E out \in AttemptOutcomes(dc_owner) :
         LET attempt == Len(dc_attempts) + 1
         IN /\ dc_attempts' = Append(dc_attempts, out)
            /\ IF out = "ok"
                 THEN dc_state' = "returned" /\ UNCHANGED dc_sleeps
                 ELSE IF attempt = AttemptsOf(dc_owner)
                        THEN dc_state' = "raised" /\ UNCHANGED dc_sleeps
                        ELSE dc_sleeps' = dc_sleeps \cup {attempt} /\ UNCHANGED dc_state
    /\ UNCHANGED <<runVars, catVars, submitVars, searchVars, clickVars, orchestrationVars, restartVars, recatalogVars, trackerVars, lookupVars, formVars, boardVars, loginVars, dc_owner, platformVars>>

InitDriver ==
    /\ IdleExcept("driver")
    /\ dc_owner \in {"application", "dice"}
    /\ dc_attempts = <<>>
    /\ dc_sleeps = {}
    /\ dc_state = "running"

NextDriver == CreateAttempt

SpecDriver == InitDriver /\ [][NextDriver]_vars

\* ------ ApplicationAssistant._run_automation, application-assistant.py 502-594
Platforms == {"indeed", "dice", "glassdoor", "ziprecruiter", "other"}

\* selected_platforms: one to MaxPlatforms different platforms
PlatformLists == {sel \in UNION {[1..n -> Platforms] : n \in 1..MaxPlatforms} : \A a, b \in DOMAIN sel : sel[a] = sel[b] => a = b}

\* What a platform assistant hands back: it raised, or a result with its
\* success flag, its total_applications and whether it carries a
\* non-empty jobs_applied list.  _indeed_automation (lines 596-624) returns
\* its demo list; _dice_automation (lines 626-679) returns what
\* run_automation returned, which has applied_jobs but no jobs_applied;
\* the others return a failure.
PlatformOutcomes(p) ==
    CASE p = "indeed" -> {[raised |-> FALSE, success |-> TRUE, total |-> DemoApplications, listed |-> TRUE],
                          [raised |-> TRUE, success |-> FALSE, total |-> 0, listed |-> FALSE]}
      [] p = "dice" -> {[raised |-> FALSE, success |-> TRUE, total |-> n, listed |-> FALSE] : n \in 0..MaxJobs}
                       \cup {[raised |-> r, success |-> FALSE, total |-> 0, listed |-> FALSE] : r \in BOOLEAN}
      [] OTHER -> {[raised |-> FALSE, success |-> FALSE, total |-> 0, listed |-> FALSE]}

SubmittedRecords(p, n) == [j \in 1..n |-> [platform |-> p, status |-> "submitted", job |-> j]]

\* the records the platform assistant itself logs before it returns:
\* lines 610-617 (indeed) and 656-676 (dice)
AssistantRecords(p, out) ==
    IF p \in {"indeed", "dice"} /\ out.success THEN SubmittedRecords(p, out.total) ELSE <<>>

\* the records _run_automation logs for the result: lines 530-564 and 574-581
OrchestratorRecords(p, out) ==
    IF out.success THEN SubmittedRecords(p, out.total)
    ELSE <<[platform |-> p, status |-> "failed", job |-> 0]>>

\* _track_application is called for the outcome unless the platform reported
\* success with no application (lines 530-581, 610-617, 656-676)
TracksAny(p, out) == Len(AssistantRecords(p, out) \o OrchestratorRecords(p, out)) > 0

\* one turn of the loop over selected_platforms.  When the store cannot be
\* reached log_application raises (application-assistant.py lines 91 and
\* 143): the first tracking call of the turn raises into the handler of
\* line 577, whose own tracking call at line 582 raises out of the loop to
\* the handler of line 589, after results[platform] was set at line 579.
RunPlatform ==
    /\ pl_i <= Len(pl_selected)
    /\ \E out \in PlatformOutcomes(pl_selected[pl_i]) :
         LET p == pl_selected[pl_i]
             aborted == ~pl_store_up /\ TracksAny(p, out)
         IN /\ pl_store' = IF pl_store_up THEN pl_store \o AssistantRecords(p, out) \o OrchestratorRecords(p, out) ELSE pl_store
            /\ pl_results' = Append(pl_results, IF aborted THEN [platform |-> p, success |-> FALSE, total |-> 0]
                                                 ELSE [platform |-> p, success |-> out.success, total |-> out.total])
            /\ pl_i' = IF aborted THEN Len(pl_selected) + 1 ELSE pl_i + 1
    /\ UNCHANGED <<runVars, catVars, submitVars, searchVars, clickVars, orchestrationVars, restartVars, recatalogVars, trackerVars, lookupVars, formVars, boardVars, loginVars, driverVars, pl_selected, pl_store_up>>

InitPlatforms ==
    /\ IdleExcept("platforms")
    /\ pl_selected \in PlatformLists
    /\ pl_i = 1
    /\ pl_store_up \in BOOLEAN
    /\ pl_store = <<>>
    /\ pl_results = <<>>

NextPlatforms == RunPlatform

SpecPlatforms == InitPlatforms /\ [][NextPlatforms]_vars

\* ------------------------------------------------ the submission store
\* A text is modelled by its content and its length: slicing keeps the
\* content's name and cuts the length.
Text(id, len) == [id |-> id, len |-> len]

\* the job titles and company names the writers are called with: empty,
\* short, and one character longer than the slice of lines 119-120
Texts == {Text("", 0), Text("t", 1), Text("t", TitleWidth + 1)}

\* lines 119-120: job_title[:255] if job_title else 'Not Specified'
StoredText(t) ==
    IF t.len = 0 THEN Text("Not Specified", Len("Not Specified"))
    ELSE IF t.len > TitleWidth THEN Text(t.id, TitleWidth)
    ELSE t

\* random.choices over A-Z and 0-9: two of the codes it can draw
RefCodes == {"A1B2C3", "Z9Y8X7"}

\* generate_simple_ref, lines 68-74
generate_simple_ref(code) == [prefix |-> "APP", year |-> "year", code |-> code]

\* what the store does with a call: psycopg2.connect raises, the INSERT
\* raises, or the row is written
StoreStates == {"up", "insert_fails", "unreachable"}

CallResult(w, kind, success, error, reference, platform, job_title, company, status) ==
    [writer |-> w, kind |-> kind, success |-> success, error |-> error, reference |-> reference,
     platform |-> platform, job_title |-> job_title, company |-> company, status |-> status]

\* ApplicationTracker.log_application, lines 76-146.  With the store
\* unreachable get_db_connection raises inside the try block before conn is
\* bound, and `if conn:` in the handler (line 143) raises UnboundLocalError
\* out of the method.
log_application ==
    /\ tk_calls < MaxCalls
    /\ tk_calls' = tk_calls + 1
    /\ \E db \in StoreStates, user_found \in BOOLEAN, platform \in {"indeed", "dice"}, job_title \in Texts,
          company \in Texts, status \in {"submitted", "failed", "pending"}, code \in RefCodes :
         LET app_ref == generate_simple_ref(code)
             call(kind, success, error, reference) ==
                 CallResult("log_application", kind, success, error, reference, platform, job_title, company, status)
         IN IF db = "unreachable"
              THEN /\ tk_last' = call("raised", FALSE, "UnboundLocalError", NoRef)
                   /\ UNCHANGED tk_store
            ELSE IF ~user_found
              THEN /\ tk_last' = call("returned", FALSE, "User not found", NoRef)
                   /\ UNCHANGED tk_store
            ELSE IF db = "insert_fails"
              THEN /\ tk_last' = call("returned", FALSE, "insert failed", NoRef)
                   /\ UNCHANGED tk_store
            ELSE /\ tk_store' = Append(tk_store, [app_ref |-> app_ref, platform |-> platform, job_title |-> StoredText(job_title),
                                                   company |-> StoredText(company), status |-> status])
                 /\ tk_last' = call("returned", TRUE, "", app_ref)
    /\ UNCHANGED <<runVars, catVars, submitVars, searchVars, clickVars, orchestrationVars, restartVars, recatalogVars, lookupVars, formVars, boardVars, loginVars, driverVars, platformVars>>

\* record_application (main.py lines 191-229) as its callers use it: the
\* onboarding route passes status 'completed' (main.py line 643), the two
\* assistant routes pass 'in_progress' (lines 833 and 870); and
\* record_board_submissions (job-board-assistant.py lines 222-273), which
\* writes 'submitted'.  Both draw an 8-character reference.
record_application ==
    /\ tk_calls < MaxCalls
    /\ tk_calls' = tk_calls + 1
    /\ \E db \in {"up", "unreachable"}, w \in {"record_application", "record_board_submissions"},
          status \in {"submitted", "in_progress", "completed"}, code \in RefCodes :
         /\ w = "record_board_submissions" <=> status = "submitted"
         /\ LET app_ref == [prefix |-> "", year |-> "", code |-> code]
                call(success, reference) == CallResult(w, "returned", success, "", reference, "indeed", Text("t", 1), Text("t", 1), status)
            IN IF db = "unreachable"
                 THEN /\ tk_last' = call(FALSE, NoRef)
                      /\ UNCHANGED tk_store
                 ELSE /\ tk_store' = Append(tk_store, [app_ref |-> app_ref, platform |-> "indeed", job_title |-> Text("t", 1),
                                                        company |-> Text("t", 1), status |-> status])
                      /\ tk_last' = call(TRUE, app_ref)
    /\ UNCHANGED <<runVars, catVars, submitVars, searchVars, clickVars, orchestrationVars, restartVars, recatalogVars, lookupVars, formVars, boardVars, loginVars, driverVars, platformVars>>

InitTracker ==
    /\ IdleExcept("tracker")
    /\ tk_store = <<>>
    /\ tk_last = NoCall
    /\ tk_calls = 0

NextTracker == log_application \/ record_application

SpecTracker == InitTracker /\ [][NextTracker]_vars


\* ----------------------------- step 4 called again and again on a live page
\* _apply_to_jobs counts the listings once (step 3, line 241) and then calls
\* step 4 with job_index = 0, 1, ...; every call runs _find_all_job_elements
\* on the page the browser shows at that moment and takes the element at
\* position job_index (step 4 lines 45-66).
ListingElements == {e \in JobElements : e.vis = "shown" /\ e.sels = {}}

RECURSIVE SeqsUpTo(_, _)
SeqsUpTo(S, n) ==
    IF n = 0 THEN {<<>>}
    ELSE LET shorter == SeqsUpTo(S, n - 1)
         IN shorter \cup {Append(q, e) : q \in {r \in shorter : Len(r) = n - 1}, e \in S}

\* the results lists the site may render
LivePages == SeqsUpTo(ListingElements, MaxElems)

\* the hrefs of the list _find_all_job_elements returns, in its order
HrefsFound(pg) == LET found == FindAllJobElements(pg) IN [k \in 1..Len(found) |-> pg[found[k]].href]

\* what step 4 takes at lines 47-66: nothing when the list is empty or
\* shorter than job_index + 1, else the element at position job_index
NoTarget == "none"

TargetHref(pg, i) ==
    LET hrefs == HrefsFound(pg)
    IN IF i >= Len(hrefs) THEN NoTarget ELSE hrefs[i + 1]

\* the site renders the results page again between two visits
PageChanges ==
    /\ rc_i < Len(rc_catalog)
    /\ \E pg \in LivePages : pg # rc_page /\ rc_page' = pg
    /\ UNCHANGED <<runVars, catVars, submitVars, searchVars, clickVars, orchestrationVars, restartVars, lookupVars, formVars, boardVars, loginVars, driverVars, platformVars, trackerVars, rc_catalog, rc_i, rc_selected>>

\* one iteration of the loop at line 255: step 4 lines 45-66 for job_index
SelectByIndex ==
    /\ rc_i < Len(rc_catalog)
    /\ rc_selected' = Append(rc_selected, TargetHref(rc_page, rc_i))
    /\ rc_i' = rc_i + 1
    /\ UNCHANGED <<runVars, catVars, submitVars, searchVars, clickVars, orchestrationVars, restartVars, lookupVars, formVars, boardVars, loginVars, driverVars, platformVars, trackerVars, rc_page, rc_catalog>>

\* after step 3: the catalog was built from the page then shown
InitRecatalog ==
    /\ IdleExcept("recatalog")
    /\ rc_page \in LivePages
    /\ rc_catalog = HrefsFound(rc_page)
    /\ rc_i = 0
    /\ rc_selected = <<>>

NextRecatalog ==
    \/ PageChanges
    \/ SelectByIndex

SpecRecatalog == InitRecatalog /\ [][NextRecatalog]_vars

\* ------------------------------------------- the click helpers of the steps
\* click_job        _click_job_element (dice_step_4_apply_to_job_index.py 290-337)
\* click_button_9   _click_button_safely (dice_step_9.py 195-244)
\* click_button_10  _click_button_safely (dice_step_10.py 238-280)
ClickHelpers == {"click_job", "click_button_9", "click_button_10"}

\* What one strategy meets.  raises: the click, or a check after it that is
\* not guarded by a try of its own, raises; url_differs, url_same: the click
\* ran and driver.current_url then differs from, equals the href (step 4
\* line 326); gone: the button is no longer displayed; stale: is_displayed
\* raises; loading: a loading indicator is displayed (step 9 lines 233-236);
\* no_sign: the click ran and none of the signs is seen.
ClickOutcomes(helper) ==
    CASE helper = "click_job" -> {"raises", "url_differs", "url_same"}
      [] helper = "click_button_9" -> {"raises", "gone", "stale", "loading", "no_sign"}
      [] helper = "click_button_10" -> {"raises", "gone", "stale", "no_sign"}

\* the return True inside the loop
ClickSeen(out) == out \in {"url_differs", "gone", "stale", "loading"}

\* mutation: a click no strategy could make is reported as failed
ClickExhausted_ReportsFailure(helper) == FALSE

\* the return after the loop: step 4 line 333, step 9 line 244, step 10 line 280
ClickExhausted(helper) == TRUE

\* step 4 lines 292-295: scrollIntoView sits outside the loop, under the
\* try of the whole helper (lines 335-337)
ScrollIntoView ==
    /\ ck_ret = "running"
    /\ ck_helper = "click_job"
    /\ ck_i = 0
    /\ \E raises \in BOOLEAN :
         IF raises THEN ck_ret' = "false" /\ UNCHANGED ck_i
         ELSE ck_i' = 1 /\ UNCHANGED ck_ret
    /\ UNCHANGED <<runVars, catVars, submitVars, searchVars, orchestrationVars, restartVars, recatalogVars, trackerVars, lookupVars, formVars, boardVars, loginVars, driverVars, platformVars, ck_helper, ck_tried, ck_step>>

\* one turn of the loop over the click strategies
TryClick ==
    /\ ck_ret = "running"
    /\ ck_i \in 1..NumClickStrategies
    /\ \E out \in ClickOutcomes(ck_helper) :
         /\ ck_tried' = Append(ck_tried, out)
         /\ IF ClickSeen(out) THEN ck_ret' = "true" /\ UNCHANGED ck_i
            ELSE IF ck_i < NumClickStrategies THEN ck_i' = ck_i + 1 /\ UNCHANGED ck_ret
            ELSE /\ ck_ret' = IF ClickExhausted(ck_helper) THEN "true" ELSE "false"
                 /\ UNCHANGED ck_i
    /\ UNCHANGED <<runVars, catVars, submitVars, searchVars, orchestrationVars, restartVars, recatalogVars, trackerVars, lookupVars, formVars, boardVars, loginVars, driverVars, platformVars, ck_helper, ck_step>>

\* the caller: step 4 lines 91-98, step 9 lines 48-50, step 10 lines 49-51
AfterClick ==
    /\ ck_ret # "running"
    /\ ck_step = "waiting"
    /\ ck_step' = IF ck_ret = "true" THEN "goes_on" ELSE "fails"
    /\ UNCHANGED <<runVars, catVars, submitVars, searchVars, orchestrationVars, restartVars, recatalogVars, trackerVars, lookupVars, formVars, boardVars, loginVars, driverVars, platformVars, ck_helper, ck_i, ck_tried, ck_ret>>

InitClick ==
    /\ IdleExcept("click")
    /\ ck_helper \in ClickHelpers
    /\ ck_i = IF ck_helper = "click_job" THEN 0 ELSE 1
    /\ ck_tried = <<>>
    /\ ck_ret = "running"
    /\ ck_step = "waiting"

NextClick ==
    \/ ScrollIntoView
    \/ TryClick
    \/ AfterClick

SpecClick == InitClick /\ [][NextClick]_vars

\* ------------------------------------------- _manual_search on a given page
\* dice-assistant.py lines 194-227, applied once to a page whose search
\* inputs are given
ManualSearch ==
    /\ ms_ret = "running"
    /\ LET out == manual_search(ms_found, ms_type_raises)
       IN /\ ms_field' = out.field
          /\ ms_ret' = IF out.ret THEN "true" ELSE "false"
    /\ UNCHANGED <<runVars, catVars, submitVars, clickVars, orchestrationVars, restartVars, recatalogVars, trackerVars, lookupVars, formVars, boardVars, loginVars, driverVars, platformVars, ms_found, ms_type_raises>>

InitSearch ==
    /\ IdleExcept("search")
    /\ ms_found \in SearchSelectorOutcomes
    /\ ms_type_raises \in BOOLEAN
    /\ ms_field = "unset"
    /\ ms_ret = "running"

SpecSearch == InitSearch /\ [][ManualSearch]_vars

\* ------------------------------- submit_application of a website automation
\* kpstaffing    KPStaffingAutomation.submit_application (kpstaffing_automation.py 49-76)
\* frontline     FrontlineSourceAutomation.submit_application (frontline_source_automation.py 48-75)
\* aps           APSAutomation.submit_application (aps_automation.py 76-145)
\* aston_carter  AstonCarterAutomation.submit_application (aston_carter_automation.py 126-211)
\* magnum        MagnumStaffingAutomation.submit_application (magnum_staffing_automation.py 121-171)
\* Each call runs on a new object (government_assistant.py line 232), so
\* self.driver is None until _create_driver has returned.
SubmitBoards == {"kpstaffing", "frontline", "aps", "aston_carter", "magnum"}

\* the automations that call stop_check_callback (aps lines 101, 119, 254;
\* aston_carter lines 167, 185, 325)
HasStopChecks(board) == board \in {"aps", "aston_carter"}

\* the finally clause wraps quit in try/except (aps lines 141-145,
\* aston_carter lines 205-209, magnum lines 167-171) or not (kpstaffing
\* lines 74-76, frontline lines 73-75)
QuitGuarded(board) == board \in {"aps", "aston_carter", "magnum"}

\* how self.driver.quit() ends: the browser is closed, or quit raises and
\* the browser is left running, or quit raises on a browser already gone
QuitOutcomes == {"ok", "raises_open", "raises_gone"}

\* the two kinds of exception the except clauses tell apart
RaiseKinds == {"raises", "times_out"}

\* the message of the pair an except clause returns: TimeoutException has a
\* clause of its own in aps (lines 131-133) and aston_carter (lines 195-197)
HandlerMessage(board, raised) ==
    IF raised = "times_out" /\ HasStopChecks(board) THEN "timeout" ELSE "error"

\* the message of the pair returned when the fill, the submit helper
\* returned False: kpstaffing (line 69) and frontline (line 68) have one
\* return for both
FailureMessage(board, helper) ==
    IF board \in {"kpstaffing", "frontline"} THEN "incomplete" ELSE helper

\* mutation: what the stop callback answers is not acted on
StopEndsCall_Ignored(board, stop) == FALSE

\* `if stop_check_callback and stop_check_callback(): return False, ...`
StopEndsCall(board, stop) == HasStopChecks(board) /\ stop

\* a return statement or an except clause of submit_application, followed
\* by its finally clause: quit is called when self.driver is bound, and an
\* exception that leaves the finally clause replaces the pair returned
ReturnThroughFinally(res, bound, quit) ==
    /\ sb_pc' = "done"
    /\ IF bound
         THEN /\ sb_quit' = IF quit = "ok" THEN "ok" ELSE "raised"
              /\ sb_browser' = IF quit = "raises_open" THEN "running" ELSE "quit"
              /\ sb_result' = IF quit # "ok" /\ ~QuitGuarded(sb_board) THEN "raised" ELSE res
         ELSE /\ quit = "ok"
              /\ sb_quit' = "none"
              /\ sb_result' = res

\* up to self.driver = self._create_driver(); leaked: _create_driver raised
\* after it had started Chrome
CreateSession ==
    /\ sb_pc = "start"
    /\ \E no_url \in BOOLEAN, create \in {"ok", "raises", "leaked"} :
         /\ no_url => create = "ok"
         /\ IF no_url \/ create # "ok"
              THEN /\ sb_browser' = IF create = "leaked" THEN "running" ELSE "none"
                   /\ ReturnThroughFinally(IF no_url THEN "no_url" ELSE "error", FALSE, "ok")
              ELSE /\ sb_browser' = "running"
                   /\ sb_pc' = "created"
                   /\ UNCHANGED <<sb_quit, sb_result>>
    /\ UNCHANGED <<runVars, catVars, searchVars, clickVars, orchestrationVars, restartVars, recatalogVars, trackerVars, lookupVars, formVars, boardVars, loginVars, driverVars, platformVars, sb_board, sb_stopped, sb_submit>>

\* from the first stop check to the return of the form fill.  step: the
\* navigation and the fill went through, the fill returned False, the fill
\* returned False at its own stop check, or a call raised
FillForm ==
    /\ sb_pc = "created"
    /\ \E stop \in BOOLEAN, step \in {"ok", "failed", "stopped"} \cup RaiseKinds, quit \in QuitOutcomes :
         /\ ~HasStopChecks(sb_board) => (~stop /\ step # "stopped")
         /\ StopEndsCall(sb_board, stop) => step = "ok"
         /\ sb_stopped' = (stop \/ step = "stopped")
         /\ IF StopEndsCall(sb_board, stop)
              THEN ReturnThroughFinally("stopped", TRUE, quit)
            ELSE IF step \in RaiseKinds
              THEN ReturnThroughFinally(HandlerMessage(sb_board, step), TRUE, quit)
            ELSE IF step # "ok"
              THEN ReturnThroughFinally(FailureMessage(sb_board, "fill_failed"), TRUE, quit)
              ELSE /\ quit = "ok"
                   /\ sb_pc' = "filled"
                   /\ UNCHANGED <<sb_browser, sb_quit, sb_result>>
    /\ UNCHANGED <<runVars, catVars, searchVars, clickVars, orchestrationVars, restartVars, recatalogVars, trackerVars, lookupVars, formVars, boardVars, loginVars, driverVars, platformVars, sb_board, sb_submit>>

\* from the stop check before submission to the return
SubmitForm ==
    /\ sb_pc = "filled"
    /\ \E stop \in BOOLEAN, submit \in {"ok", "failed"} \cup RaiseKinds, quit \in QuitOutcomes :
         /\ ~HasStopChecks(sb_board) => ~stop
         /\ StopEndsCall(sb_board, stop) => submit = "ok"
         /\ sb_stopped' = (sb_stopped \/ stop)
         /\ IF StopEndsCall(sb_board, stop)
              THEN /\ ReturnThroughFinally("stopped", TRUE, quit)
                   /\ UNCHANGED sb_submit
              ELSE /\ sb_submit' = submit
                   /\ ReturnThroughFinally(IF submit = "ok" THEN "submitted"
                                           ELSE IF submit \in RaiseKinds THEN HandlerMessage(sb_board, submit)
                                           ELSE FailureMessage(sb_board, "submit_failed"), TRUE, quit)
    /\ UNCHANGED <<runVars, catVars, searchVars, clickVars, orchestrationVars, restartVars, recatalogVars, trackerVars, lookupVars, formVars, boardVars, loginVars, driverVars, platformVars, sb_board>>

InitSubmit ==
    /\ IdleExcept("submit")
    /\ sb_board \in SubmitBoards
    /\ sb_pc = "start"
    /\ sb_browser = "none"
    /\ sb_stopped = FALSE
    /\ sb_submit = "none"
    /\ sb_quit = "none"
    /\ sb_result = "none"

NextSubmit ==
    \/ CreateSession
    \/ FillForm
    \/ SubmitForm

SpecSubmit == InitSubmit /\ [][NextSubmit]_vars

\* ================================================================ properties
ApplyEvents == SelectSeq(trace, LAMBDA e : e.ev = "apply")

LoopEvents == SelectSeq(trace, LAMBDA e : e.ev \in {"apply", "return"})

TierEvents == SelectSeq(trace, LAMBDA e : e.ev = "tier")

Has(e, i, ok) == \E p \in 1..Len(trace) : trace[p] = Ev(e, i, ok)

Finished == pc = "done" /\ result.kind = "summary"

\* entries whose whole chain succeeded / entries whose chain ended in a failure
GoodSet == {i \in 0..(total_jobs - 1) : Has("apply", i, TRUE) /\ Has("s8", i, TRUE) /\ Has("s9", i, TRUE) /\ Has("s10", i, TRUE)}

FailedSet == {i \in 0..(total_jobs - 1) : Has("apply", i, FALSE) \/ Has("s8", i, FALSE) \/ Has("s9", i, FALSE) \/ Has("s10", i, FALSE)}

\* C1: step 4 is attempted for the indices 0, 1, ... in increasing order,
\* each once, and when the loop has returned its summary for a catalog of
\* N >= 1 entries every index 0..N-1 has been attempted, whatever failed or
\* raised on the way.
C1_EveryIndexAttemptedOnce ==
    /\ \A k \in 1..Len(ApplyEvents) : ApplyEvents[k].i = k - 1
    /\ (Finished /\ total_jobs >= 1) => Len(ApplyEvents) = total_jobs

C1_Witness ==
    /\ Finished
    /\ total_jobs >= 2
    /\ Has("apply", 0, FALSE)
    /\ Has("except", 0, TRUE)
    /\ Len(ApplyEvents) = total_jobs

\* C2: the summary counts exactly the entries for which steps 4, 8 and 9
\* succeeded and step 10 confirmed; applied_jobs lists exactly those
\* indices, in increasing order; the run is a success when there is one.
C2_CountMatchesSubmissions ==
    Finished =>
        /\ result.total_applications = Cardinality(GoodSet)
        /\ Len(result.applied_jobs) = Cardinality(GoodSet)
        /\ \A k \in 1..Len(result.applied_jobs) : result.applied_jobs[k] \in GoodSet
        /\ \A k \in 1..(Len(result.applied_jobs) - 1) : result.applied_jobs[k] < result.applied_jobs[k + 1]
        /\ (GoodSet # {} => result.success)

C2_Witness ==
    /\ Finished
    /\ total_jobs = 3
    /\ Has("s8", 1, FALSE)
    /\ result.applied_jobs = <<0, 2>>
    /\ result.total_applications = 2
    /\ result.success

RECURSIVE Alternation(_, _)
Alternation(n, with_last) ==
    IF n = 0 THEN <<>>
    ELSE Alternation(n - 1, TRUE) \o (IF with_last THEN <<"apply", "return">> ELSE <<"apply">>)

IsPrefix(a, b) == Len(a) <= Len(b) /\ \A k \in 1..Len(a) : a[k] = b[k]

LoopOrder == [k \in 1..Len(LoopEvents) |-> LoopEvents[k].ev]

LoopIndicesInOrder == \A k \in 1..Len(LoopEvents) : LoopEvents[k].i = (k - 1) \div 2

\* C4 as stated: the calls follow Applying(i), Returning(i) for every i,
\* the last one included, and Done comes after Returning(N-1).
C4_ReturnAfterEveryEntry ==
    /\ LoopIndicesInOrder
    /\ IsPrefix(LoopOrder, Alternation(total_jobs, TRUE))
    /\ (Finished /\ total_jobs >= 1) => LoopOrder = Alternation(total_jobs, TRUE)

\* C4 amended: Returning(i) runs after Applying(i) for every i < N-1 and
\* before Applying(i+1); there is no Returning(N-1), and Done is reached
\* after Applying(N-1).
C4_ReturnBetweenEntries ==
    /\ LoopIndicesInOrder
    /\ IsPrefix(LoopOrder, Alternation(total_jobs, FALSE))
    /\ (Finished /\ total_jobs >= 1) => LoopOrder = Alternation(total_jobs, FALSE)

C4_Witness ==
    /\ Finished
    /\ total_jobs >= 2
    /\ Len(LoopEvents) = 2 * total_jobs - 1
    /\ LoopEvents[Len(LoopEvents)] = Ev("apply", total_jobs - 1, TRUE)

\* C5: when cataloging finds nothing, no apply attempt is made and the run
\* result has success False and total_applications 0.
C5_ZeroListingsReportFailure ==
    (pc = "done" /\ \E p \in 1..Len(trace) : trace[p].ev = "catalog" /\ trace[p].i \in {0, Absent}) =>
        /\ ApplyEvents = <<>>
        /\ result.success = FALSE
        /\ result.total_applications = 0

\* the entries the returned dict says anything about (lines 410-419)
EntriesInResult == {result.applied_jobs[k] : k \in 1..Len(result.applied_jobs)}

\* C6: every entry whose Applying(i) failed is identified by a record of
\* the run's result.
C6_FailedEntriesRecorded == Finished => FailedSet \subseteq EntriesInResult

\* C7: the k-th tier attempted is Tier k, and a tier is attempted only
\* after the one before it returned failure.
C7_TiersInOrder ==
    \A k \in 1..Len(TierEvents) :
        /\ TierEvents[k].i = k
        /\ k > 1 => ~TierEvents[k - 1].ok

C7_Witness ==
    /\ Len(TierEvents) = 3
    /\ TierEvents[3].i = 3

\* C8: no tier is attempted after one returned success, and the result's
\* tier_used names the tier that returned success.
C8_StopAtFirstSuccess ==
    /\ \A k \in 1..Len(TierEvents) : TierEvents[k].ok => k = Len(TierEvents)
    /\ Finished =>
          /\ TierEvents # <<>>
          /\ TierEvents[Len(TierEvents)].ok
          /\ result.tier_used = (IF TierEvents[Len(TierEvents)].i = 1 THEN "Tier 1"
                                 ELSE IF TierEvents[Len(TierEvents)].i = 2 THEN "Tier 2" ELSE "Tier 3")

C8_Witness ==
    /\ Finished
    /\ result.tier_used = "Tier 2"
    /\ Len(TierEvents) = 2

LoginOkBefore(p) == \E q \in 1..(p - 1) : trace[q].ev = "login" /\ trace[q].ok

TierOkBefore(p) == \E q \in 1..(p - 1) : trace[q].ev = "tier" /\ trace[q].ok

\* C9: a tier is attempted only after a successful login, cataloging and
\* applying only after a successful tier; a failed login ends the run with
\* a failure result and no tier attempt, and three failed tiers end it with
\* 'Failed to reach job page' and no catalog.
C9_LoginAndTierFirst ==
    /\ \A p \in 1..Len(trace) : trace[p].ev = "tier" => LoginOkBefore(p)
    /\ \A p \in 1..Len(trace) : trace[p].ev \in {"catalog", "apply"} => LoginOkBefore(p) /\ TierOkBefore(p)
    /\ (pc = "done" /\ Has("login", Absent, FALSE)) =>
          /\ result.kind = "error"
          /\ ~result.success
          /\ TierEvents = <<>>
    /\ (pc = "done" /\ Len(TierEvents) = 3 /\ ~TierEvents[3].ok) =>
          /\ result.kind = "error"
          /\ ~result.success
          /\ result.error = "Failed to reach job page"
          /\ \A p \in 1..Len(trace) : trace[p].ev # "catalog"

C9_Witness ==
    /\ pc = "done"
    /\ Len(TierEvents) = 3
    /\ result.error = "Failed to reach job page"
    /\ browser = "quit"

\* C10: the catalog holds no two elements with the same href and exactly
\* one displayed element for every href a displayed listing link carries,
\* however many selectors match it.
VisibleJobHrefs(pg) == {pg[k].href : k \in {j \in 1..Len(pg) : pg[j].vis = "shown" /\ pg[j].href \in JobHrefs}}

C10_CatalogDedup ==
    cataloged =>
        /\ \A a, b \in 1..Len(catalog) : a # b => page[catalog[a]].href # page[catalog[b]].href
        /\ \A a \in 1..Len(catalog) : page[catalog[a]].vis = "shown"
        /\ {page[catalog[a]].href : a \in 1..Len(catalog)} = VisibleJobHrefs(page)
        /\ Len(catalog) = Cardinality(VisibleJobHrefs(page))

C10_Witness ==
    /\ cataloged
    /\ Len(catalog) = 2
    /\ \E j, k \in 1..Len(page) :
          /\ j # k
          /\ page[j].href = page[k].href
          /\ page[j].vis = "shown"
          /\ page[k].vis = "shown"
          /\ page[j].sels # {}

\* ---------------------------------------------------------------- C11
\* the required roles the fill calls could not resolve
MissingRequired == RequiredOf(form_board) \cap unresolved

\* C11: when a form fill runs to its end, it is acceptable if exactly one
\* required role could not be resolved and a failure if two or more could
\* not, for each of the four boards.
C11_OneMissingAcceptedTwoRejected ==
    form_pc = "done" =>
        /\ Cardinality(MissingRequired) = 1 => form_ok
        /\ Cardinality(MissingRequired) >= 2 => ~form_ok

\* ---------------------------------------------------------------- C12
\* C12: a form field is reported as filled only after a readback of its
\* value that was non-empty.
C12_FilledOnlyAfterReadback ==
    (ChecksValue(lk_kind) /\ lk_ret = "true") => lk_readback = "value"

\* ---------------------------------------------------------------- C13
\* the positions tried, in the order they were tried
TriedOrder == [p \in 1..Len(lk_tried) |-> lk_tried[p].k]

\* positions whose candidate was displayed, enabled and took the action without raising
CandidatePositions == {p \in 1..Len(lk_tried) : lk_tried[p].out \in {"empty", "value"}}

\* positions whose candidate the lookup accepted
AcceptedPositions ==
    {p \in 1..Len(lk_tried) :
        \/ lk_tried[p].out = "value"
        \/ lk_tried[p].out = "empty" /\ lk_kind \in {"kp_fill", "enter_email"}}

C14_SessionReleasedOnEveryExit == pc = "done" => browser # "running"

\* ---------------------------------------------------------------- C15
\* the positions of gb_boards for which a result was recorded
ResultPositions(results) == {results[k].i : k \in 1..Len(results)}

StartedPositions(started) == {started[k] : k \in 1..Len(started)}

\* C15: once stop_requested is True the job-board run starts no further
\* board, and a board that was not started gets no submission result.
C15_NoBoardStartsAfterStop ==
    [][stop_requested =>
          /\ gb_started' = gb_started
          /\ ResultPositions(gb_results') \subseteq StartedPositions(gb_started)]_vars

\* a stop arrived after at least one board had been started and the loop
\* ended at its next check with boards left over
C15_Witness ==
    /\ stop_requested
    /\ gb_pc = "done"
    /\ gb_started # <<>>
    /\ gb_i <= Len(gb_boards)
    /\ gb_boards[gb_i] \notin completed_boards

\* ---------------------------------------------------------------- C16
\* C16: once a stop has been requested, the apply loop starts no further
\* listing entry.
C16_NoEntryStartsAfterStop == [][stop_requested => ApplyEvents' = ApplyEvents]_vars

\* ---------------------------------------------------------------- C17
\* positions of lg_attempts whose flow passed verification
PassedAttempts == {p \in 1..Len(lg_attempts) : lg_attempts[p].ok}

\* C17: the login URLs are tried in list order; the first URL whose flow
\* passes verification ends the loop with success; any failure or
\* exception at a URL leads to the next URL; the failure result is
\* returned only after every URL has been tried.
C17_LoginUrlsInOrder ==
    /\ \A p \in 1..Len(lg_attempts) : lg_attempts[p].url = p
    /\ \A p \in PassedAttempts : p = Len(lg_attempts)
    /\ lg_result = "success" <=> PassedAttempts # {}
    /\ lg_result = "all_failed" => (Len(lg_attempts) = Len(LoginUrls) /\ PassedAttempts = {})
    /\ lg_pc = "urls" => (lg_url = Len(lg_attempts) + 1 /\ lg_url <= Len(LoginUrls))
    /\ (lg_pc = "done" /\ lg_result # "no_credentials") => lg_result \in {"success", "all_failed"}

\* the first URL failed at the password entry and the second one logged in
C17_Witness ==
    /\ lg_result = "success"
    /\ Len(lg_attempts) = 2
    /\ lg_attempts[1].stage = "password_failed"
    /\ lg_attempts[2].ok

\* ---------------------------------------------------------------- C18
\* C18: a login flow is reported successful only if the page left the
\* login URL or shows an authenticated indicator, and no error text is
\* displayed.
C18_LoginSuccessNeedsSignals ==
    \A p \in PassedAttempts :
        /\ ~lg_attempts[p].sig.on_login \/ lg_attempts[p].sig.auth
        /\ ~lg_attempts[p].sig.error

\* ---------------------------------------------------------------- C19
\* C19: session creation is attempted at most 3 times, returns at the
\* first attempt that succeeds, sleeps after each failed attempt that is
\* followed by another, and raises exactly when 3 attempts have failed.
C19_ThreeAttemptsBeforeFailure ==
    /\ Len(dc_attempts) <= max_retries
    /\ \A k \in 1..Len(dc_attempts) : dc_attempts[k] = "ok" => (k = Len(dc_attempts) /\ dc_state = "returned")
    /\ dc_state = "returned" => dc_attempts[Len(dc_attempts)] = "ok"
    /\ dc_state = "raised" <=> (Len(dc_attempts) = max_retries /\ \A k \in 1..max_retries : dc_attempts[k] # "ok")
    /\ dc_sleeps = {k \in 1..Len(dc_attempts) : dc_attempts[k] # "ok" /\ k < max_retries}

\* ---------------------------------------------------------------- C20
\* the 'submitted' records the store holds for platform p
SubmittedFor(p) == SelectSeq(pl_store, LAMBDA r : r.platform = p /\ r.status = "submitted")

\* C20: for every platform run that reported success, the store holds as
\* many 'submitted' records for the platform as the total_applications it
\* reported, and no application is recorded twice.
C20_EachSubmissionLoggedOnce ==
    pl_store_up =>
        \A k \in 1..Len(pl_results) :
            pl_results[k].success =>
                /\ Len(SubmittedFor(pl_results[k].platform)) = pl_results[k].total
                /\ \A a, b \in 1..Len(SubmittedFor(pl_results[k].platform)) :
                       SubmittedFor(pl_results[k].platform)[a].job = SubmittedFor(pl_results[k].platform)[b].job => a = b

\* ---------------------------------------------------------------- C21
\* C21: a call of log_application always returns; when it reports failure
\* (user record absent, store unreachable, insert failed) the result
\* carries an error message and no row was written.
C21_LogApplicationNeverRaises ==
    [][(tk_calls' # tk_calls /\ tk_last'.writer = "log_application") =>
          /\ tk_last'.kind = "returned"
          /\ ~tk_last'.success => (tk_last'.error # "" /\ tk_store' = tk_store)]_vars

\* ---------------------------------------------------------------- C22
\* C22: after log_application reported success, every row carrying the
\* reference it returned has the platform, job_title, company and status
\* the call was given.
C22_LoggedSubmissionReadsBackSame ==
    (tk_last.writer = "log_application" /\ tk_last.success) =>
        \A k \in 1..Len(tk_store) :
            tk_store[k].app_ref = tk_last.reference =>
                /\ tk_store[k].platform = tk_last.platform
                /\ tk_store[k].job_title = tk_last.job_title
                /\ tk_store[k].company = tk_last.company
                /\ tk_store[k].status = tk_last.status

\* ---------------------------------------------------------------- C23
\* C23: every reference log_application wrote has the form
\* APP-<year>-<code>, and no two rows it wrote carry the same reference.
C23_ReferencesUnique ==
    \A a, b \in 1..Len(tk_store) :
        (tk_store[a].app_ref.prefix = "APP" /\ tk_store[b].app_ref.prefix = "APP") =>
            /\ tk_store[a].app_ref.year = "year"
            /\ tk_store[a].app_ref.code \in RefCodes
            /\ a # b => tk_store[a].app_ref # tk_store[b].app_ref

\* ---------------------------------------------------------------- C24
\* C24: every row of the store has a status among submitted, failed and
\* pending, whichever writer wrote it.
C24_StatusAmongThree == \A k \in 1..Len(tk_store) : tk_store[k].status \in {"submitted", "failed", "pending"}

\* ---------------------------------------------------------------- C25
\* C25: the platforms that were run are the selected ones, in the
\* selected order, and when the loop is over every selected platform has
\* been run once, whatever the platforms before it returned or raised.
C25_EveryPlatformRunInOrder ==
    /\ Len(pl_results) <= Len(pl_selected)
    /\ \A k \in 1..Len(pl_results) : pl_results[k].platform = pl_selected[k]
    /\ pl_i > Len(pl_selected) => Len(pl_results) = Len(pl_selected)

\* ---------------------------------------------------------------- C26
\* C26: whenever run_automation has ended, it has returned a result with a
\* success flag: the error dict or the summary dict, never an exception.
C26_AlwaysStructuredResult == pc = "done" => result.kind \in {"error", "summary"}

\* ---------------------------------------------------------------- C27
LastEvent == trace[Len(trace)]

LastSelected == ApplyEvents[Len(ApplyEvents)].i

SkippedUntouched ==
    judged_applied =>
        /\ pc \notin {"step8", "step9", "step10"}
        /\ Has("apply", LastSelected, FALSE)
        /\ \A p \in 1..Len(trace) : trace[p].ev \in {"s8", "s9", "s10"} => trace[p].i # LastSelected
        /\ \A k \in 1..Len(applied_jobs) : applied_jobs[k] # LastSelected

\* C28: an entry the heuristic judges already applied is not clicked (no
\* window or URL changes in step 4), steps 8, 9 and 10 are not run for it
\* and it is not among the completed applications.
C28_AppliedEntrySkipped ==
    [][/\ SkippedUntouched'
       /\ (pc = "step4" /\ judged_applied') => winVars' = winVars]_vars

C28_Witness ==
    /\ Finished
    /\ judged_applied
    /\ total_jobs = 2
    /\ LastSelected = 1
    /\ result.applied_jobs = <<0>>

\* ---------------------------------------------------------------- C29
\* C29: step 8 runs for an entry only right after its step 4 succeeded,
\* step 9 only right after its step 8 succeeded, step 10 only right after
\* its step 9 succeeded, and no apply step follows a failed one.
C29_ApplyStepsInOrder ==
    \A p \in 1..Len(trace) :
        /\ trace[p].ev = "s8" => (p > 1 /\ trace[p - 1] = Ev("apply", trace[p].i, TRUE))
        /\ trace[p].ev = "s9" => (p > 1 /\ trace[p - 1] = Ev("s8", trace[p].i, TRUE))
        /\ trace[p].ev = "s10" => (p > 1 /\ trace[p - 1] = Ev("s9", trace[p].i, TRUE))
        /\ (trace[p].ev \in {"apply", "s8", "s9", "s10"} /\ ~trace[p].ok /\ p < Len(trace)) =>
              trace[p + 1].ev \notin {"s8", "s9", "s10"}

C29_Witness ==
    /\ Finished
    /\ total_jobs = 2
    /\ Has("apply", 0, TRUE)
    /\ Has("s8", 0, TRUE)
    /\ Has("s9", 0, TRUE)
    /\ Has("s10", 0, TRUE)
    /\ Has("s8", 1, TRUE)
    /\ Has("s9", 1, FALSE)
    /\ \A p \in 1..Len(trace) : trace[p].ev = "s10" => trace[p].i = 0

\* ---------------------------------------------------------------- C30
\* C30: the controller moves to the next entry only from a return whose
\* verification found the results page and found it ready.
C30_NextEntryOnlyAfterVerifiedReturn ==
    [][job_index' = job_index + 1 => (pc = "returned" /\ page_verified)]_vars

\* ---------------------------------------------------------------- C31
\* C31: across one run no listing, identified by its href, is selected for
\* an apply attempt more than once, and once the loop is over every listing
\* of the initial catalog was selected.
C31_EachListingSelectedOnce ==
    /\ \A p, q \in 1..Len(rc_selected) :
          (p # q /\ rc_selected[p] # NoTarget) => rc_selected[p] # rc_selected[q]
    /\ rc_i = Len(rc_catalog) =>
          \A k \in 1..Len(rc_catalog) : \E p \in 1..Len(rc_selected) : rc_selected[p] = rc_catalog[k]

\* ---------------------------------------------------------------- C32
\* the window the run started in, which shows the results page
ResultsWindow == 1

C33_StopStaysInForce ==
    [][rs_stopped => gb_started' = gb_started]_vars

\* ---------------------------------------------------------------- C34
\* the board ids whose automation has finished and returned success
SucceededBoards == {gb_boards[gb_results[k].i] : k \in {j \in 1..Len(gb_results) : gb_results[j].success}}

\* C34: a board is recorded with status 'submitted' only if its website
\* automation has finished and returned success.
C34_SubmittedOnlyAfterSuccess ==
    \A k \in 1..Len(or_records) :
        or_records[k].status = "submitted" => or_records[k].board \in SucceededBoards

\* ---------------------------------------------------------------- C35
\* every click strategy of the helper was tried and every one raised
AllClicksRaised ==
    /\ Len(ck_tried) = NumClickStrategies
    /\ \A p \in 1..Len(ck_tried) : ck_tried[p] = "raises"

\* C35: when every click strategy raises, the click helper of step 4 and
\* the ones of steps 9 and 10 return True, and the calling step goes on as
\* after a click that happened.
C35_UnconfirmedClickCountsAsDone ==
    AllClicksRaised =>
        /\ ck_ret = "true"
        /\ ck_step \in {"waiting", "goes_on"}

C35_Witness ==
    /\ ck_helper = "click_job"
    /\ AllClicksRaised
    /\ ck_step = "goes_on"

\* ---------------------------------------------------------------- C36
\* some selector yields a displayed search input
DisplayedInputFound == \E s \in 1..Len(ms_found) : ms_found[s] = "shown"

\* C36: the manual search of Tier 2 types the job title only into a search
\* input that is displayed; when no selector yields a displayed input it
\* types nothing and returns False.
C36_TypesOnlyIntoDisplayedInput ==
    ms_ret # "running" =>
        /\ ms_field \in {"none", "shown"}
        /\ ~DisplayedInputFound => (ms_field = "none" /\ ms_ret = "false")

\* ---------------------------------------------------------------- C37
\* the messages of the pairs submit_application returns
SubmitMessages == {"submitted", "no_url", "stopped", "fill_failed", "submit_failed", "incomplete", "error", "timeout"}

\* C37: submit_application of a website automation always returns a
\* (success, message) pair and never raises, and a submission that
\* succeeded is reported as success also when closing the browser raises.
C37_SubmitAlwaysReturnsPair ==
    sb_pc = "done" =>
        /\ sb_result \in SubmitMessages
        /\ sb_submit = "ok" => sb_result = "submitted"

SuccessResults == {k \in 1..Len(gb_results) : gb_results[k].success}

\* C38: within one job-board run no board id is submitted with success
\* twice: the automation is not called for a position whose id succeeded at
\* an earlier position, and completed_boards holds exactly the ids whose
\* submission returned success.
C38_NoBoardSubmittedTwice ==
    /\ \A j, k \in SuccessResults : j # k => gb_boards[gb_results[j].i] # gb_boards[gb_results[k].i]
    /\ \A p \in 1..Len(gb_started) : \A k \in SuccessResults :
          gb_results[k].i < gb_started[p] => gb_boards[gb_results[k].i] # gb_boards[gb_started[p]]
    /\ completed_boards = SucceededBoards

\* a board id listed twice: submitted with success at position 1, skipped
\* at position 2
C38_Witness ==
    /\ gb_pc = "done"
    /\ Len(gb_boards) = 2
    /\ gb_boards[1] = gb_boards[2]
    /\ gb_i = 3
    /\ gb_started = <<1>>
    /\ gb_results = <<[i |-> 1, success |-> TRUE]>>

\* ---------------------------------------------------------------- C39
\* C39: Tier 3 never returns success: a finished run in which Tier 1 and
\* Tier 2 both returned failure ended with the failure
\* 'Failed to reach job page', and neither the run nor any returned result
\* names "Tier 3" as the tier used.
C39_Tier3NeverSucceeds ==
    /\ \A k \in 1..Len(TierEvents) : TierEvents[k].i = 3 => ~TierEvents[k].ok
    /\ (pc = "done" /\ Len(TierEvents) >= 2 /\ ~TierEvents[1].ok /\ ~TierEvents[2].ok) =>
          /\ Len(TierEvents) = 3
          /\ ~result.success
          /\ result.error = "Failed to reach job page"
    /\ tier_used # "Tier 3"
    /\ result.tier_used # "Tier 3"

\* Tier 3 loaded the jobs root and the run ended with the failure
C39_Witness ==
    /\ pc = "done"
    /\ Len(TierEvents) = 3
    /\ TierEvents[3].i = 3
    /\ ~TierEvents[3].ok
    /\ winUrl[cur] = JobsRootUrl
    /\ result.kind = "error"
    /\ tier_used = "none"

====
